---- MODULE Spec2Model ----
(***************************************************************************)
(* Model of the Markdown rendering core of litchi                          *)
(* (src/src/markdown/writer.rs, document.rs, presentation.rs).             *)
(*                                                                         *)
(* Text is a sequence of one-character strings.  The output buffer is a    *)
(* sequence of pieces: every character of pushed text is one piece, and    *)
(* every literal the code pushes (a marker, a tag, a paragraph break) is   *)
(* one piece.  Bytes(buffer) is the byte string the pieces spell.          *)
(*                                                                         *)
(* The build modelled has the ooxml and formula features enabled: cells    *)
(* carry a vertical-merge state and paragraphs may carry display           *)
(* formulas.  A formula is held as the LaTeX text its conversion yields.   *)
(***************************************************************************)
EXTENDS Integers, Sequences, FiniteSets, TLC

VARIABLES
    options,          \* MarkdownOptions of the render under way
    writer,           \* MarkdownWriter: buffer and the three current_* flags
    pc,               \* position of the modelled caller
    para,             \* paragraph handed to write_paragraph
    nruns,            \* number of fragments streamed so far (run stream)
    cur_table,        \* table handed to write_table
    cur_spans,        \* span grid computed by the last write_html_table
    calls,            \* accessor invocations on the table's rows and cells
    elements,         \* Document::elements(): paragraphs and tables in order
    idx,              \* sequential path: index of the next element to write
    element_strings,  \* parallel path: the finished buffer of every shard
    next_idx,         \* parallel path: next index of every task's range
    metadata,         \* what metadata() and to_yaml_front_matter() answer
    result            \* what to_markdown_with_options returned

vars == <<options, writer, pc, para, nruns, cur_table, cur_spans, calls,
          elements, idx, element_strings, next_idx, metadata, result>>

tableVars == <<cur_table, cur_spans, calls>>
docVars == <<elements, idx, element_strings, next_idx, metadata, result>>

(***************************************************************************)
(* Bounds                                                                  *)
(***************************************************************************)
MaxRuns == 4
MaxTextLen == 5
MaxRows == 2
MaxCols == 2
MaxSpan == 2
MaxHead == 2
NumWorkers == 2

(***************************************************************************)
(* Sequence and string helpers (Rust str methods).  A text is a sequence    *)
(* of characters; a character outside ASCII is written by its code point   *)
(* ("U+2022") and counts Utf8Len bytes where the code measures bytes.      *)
(***************************************************************************)
RECURSIVE Concat(_)
Concat(ss) ==
    IF Len(ss) = 0 THEN <<>>
    ELSE IF Len(ss) = 1 THEN ss[1]
    ELSE LET half == Len(ss) \div 2
         IN Concat(SubSeq(ss, 1, half)) \o Concat(SubSeq(ss, half + 1, Len(ss)))

Repeat(piece, n) == [i \in 1..n |-> piece]

\* text[a..b] with Rust's 0-based, end-exclusive offsets, for offsets that
\* follow ASCII characters only (there the byte offset is the character
\* offset)
Slice(s, a, b) == SubSeq(s, a + 1, b)

\* char::len_utf8 of the characters the model names
Utf8Len(c) ==
    IF c \in {"U+0085", "U+00A0", "U+00A2", "U+00E2"} THEN 2
    ELSE IF c \in {"U+1680", "U+2000", "U+2001", "U+2002", "U+2003", "U+2004",
                   "U+2005", "U+2006", "U+2007", "U+2008", "U+2009", "U+200A",
                   "U+2022", "U+2028", "U+2029", "U+202F", "U+205F", "U+20AC",
                   "U+3000"} THEN 3
    ELSE 1

\* str::len: the length in bytes
RECURSIVE ByteLen(_)
ByteLen(s) == IF s = <<>> THEN 0 ELSE Utf8Len(Head(s)) + ByteLen(Tail(s))

\* str::is_char_boundary(n)
IsCharBoundary(s, n) == \E k \in 0..Len(s) : ByteLen(SubSeq(s, 1, k)) = n

\* &text[n..] for a byte offset n on a character boundary
ByteSuffix(s, n) ==
    LET k == CHOOSE j \in 0..Len(s) : ByteLen(SubSeq(s, 1, j)) = n
    IN  SubSeq(s, k + 1, Len(s))

\* char::is_whitespace: the Unicode White_Space property
IsWhite(c) ==
    c \in {" ", "\t", "\n", "\r", "\f", "U+000B", "U+0085", "U+00A0", "U+1680",
           "U+2000", "U+2001", "U+2002", "U+2003", "U+2004", "U+2005", "U+2006",
           "U+2007", "U+2008", "U+2009", "U+200A", "U+2028", "U+2029", "U+202F",
           "U+205F", "U+3000"}

IsAsciiDigit(c) == c \in {"0", "1", "2", "3", "4", "5", "6", "7", "8", "9"}

\* the number of leading whitespace characters
RECURSIVE LeadingWhiteChars(_)
LeadingWhiteChars(s) ==
    IF s = <<>> \/ ~IsWhite(Head(s)) THEN 0 ELSE 1 + LeadingWhiteChars(Tail(s))

\* str::trim_start
TrimStart(s) == SubSeq(s, LeadingWhiteChars(s) + 1, Len(s))

\* text.len() - text.trim_start().len(): the leading whitespace in bytes
LeadingWhite(s) == ByteLen(s) - ByteLen(TrimStart(s))

\* str::trim_end
TrimEnd(s) ==
    SubSeq(s, 1, CHOOSE k \in 0..Len(s) :
                     /\ \A i \in (k + 1)..Len(s) : IsWhite(s[i])
                     /\ (k = 0 \/ ~IsWhite(s[k])))

\* str::trim().is_empty()
TrimIsEmpty(s) == \A i \in 1..Len(s) : IsWhite(s[i])

\* str::find(char): 0-based offset of the first occurrence, -1 for None
Find(s, c) ==
    IF \E i \in 1..Len(s) : s[i] = c
    THEN (CHOOSE i \in 1..Len(s) : s[i] = c /\ \A j \in 1..(i - 1) : s[j] # c) - 1
    ELSE -1

\* str::find(&str) for a two-character pattern
Find2(s, c1, c2) ==
    IF \E i \in 1..(Len(s) - 1) : s[i] = c1 /\ s[i + 1] = c2
    THEN (CHOOSE i \in 1..(Len(s) - 1) :
              /\ s[i] = c1 /\ s[i + 1] = c2
              /\ \A j \in 1..(i - 1) : ~(s[j] = c1 /\ s[j + 1] = c2)) - 1
    ELSE -1

StartsWith(s, p) == Len(s) >= Len(p) /\ SubSeq(s, 1, Len(p)) = p

EndsWith(s, p) == Len(s) >= Len(p) /\ SubSeq(s, Len(s) - Len(p) + 1, Len(s)) = p

Contains(s, c) == \E i \in 1..Len(s) : s[i] = c

\* str::replace(from, to) for single characters
Replace(s, from, to) == [i \in 1..Len(s) |-> IF s[i] = from THEN to ELSE s[i]]

\* the bytes a pushed literal spells (a single character spells itself;
\* "U+2022" and the "^d" / "_d" script digits stand for one character each)
PieceBytes(p) ==
    CASE p = "**" -> <<"*", "*">>
      [] p = "***" -> <<"*", "*", "*">>
      [] p = "~~" -> <<"~", "~">>
      [] p = "\n\n" -> <<"\n", "\n">>
      [] p = "\\|" -> <<"\\", "|">>
      [] p = "\\(" -> <<"\\", "(">>
      [] p = "\\)" -> <<"\\", ")">>
      [] p = "\\[" -> <<"\\", "[">>
      [] p = "\\]" -> <<"\\", "]">>
      [] p = "$$" -> <<"$", "$">>
      [] p = "<sup>" -> <<"<", "s", "u", "p", ">">>
      [] p = "</sup>" -> <<"<", "/", "s", "u", "p", ">">>
      [] p = "<sub>" -> <<"<", "s", "u", "b", ">">>
      [] p = "</sub>" -> <<"<", "/", "s", "u", "b", ">">>
      [] p = "<del>" -> <<"<", "d", "e", "l", ">">>
      [] p = "</del>" -> <<"<", "/", "d", "e", "l", ">">>
      [] p = " |" -> <<" ", "|">>
      [] p = "----------|" -> <<"-", "-", "-", "-", "-", "-", "-", "-", "-", "-", "|">>
      [] p = "<table>\n" -> <<"<", "t", "a", "b", "l", "e", ">", "\n">>
      [] p = "<table>" -> <<"<", "t", "a", "b", "l", "e", ">">>
      [] p = "</table>" -> <<"<", "/", "t", "a", "b", "l", "e", ">">>
      [] p = "<tr>\n" -> <<"<", "t", "r", ">", "\n">>
      [] p = "</tr>\n" -> <<"<", "/", "t", "r", ">", "\n">>
      [] p = "<tr>" -> <<"<", "t", "r", ">">>
      [] p = "</tr>" -> <<"<", "/", "t", "r", ">">>
      [] p = "th" -> <<"t", "h">>
      [] p = "td" -> <<"t", "d">>
      [] p = " colspan=\"" -> <<" ", "c", "o", "l", "s", "p", "a", "n", "=", "\"">>
      [] p = " rowspan=\"" -> <<" ", "r", "o", "w", "s", "p", "a", "n", "=", "\"">>
      [] p = "</" -> <<"<", "/">>
      [] p = "&amp;" -> <<"&", "a", "m", "p", ";">>
      [] p = "&lt;" -> <<"&", "l", "t", ";">>
      [] p = "&gt;" -> <<"&", "g", "t", ";">>
      [] p = "<br>" -> <<"<", "b", "r", ">">>
      [] p = "\n\n---\n\n" -> <<"\n", "\n", "-", "-", "-", "\n", "\n">>
      [] p = "# Slide " -> <<"#", " ", "S", "l", "i", "d", "e", " ">>
      [] OTHER -> <<p>>

RECURSIVE Bytes(_)
Bytes(buf) ==
    IF Len(buf) = 0 THEN <<>>
    ELSE IF Len(buf) = 1 THEN PieceBytes(buf[1])
    ELSE LET half == Len(buf) \div 2
         IN Bytes(SubSeq(buf, 1, half)) \o Bytes(SubSeq(buf, half + 1, Len(buf)))

\* String::ends_with('\n')
EndsWithNewline(buf) ==
    Len(buf) > 0 /\ Bytes(<<buf[Len(buf)]>>)[Len(Bytes(<<buf[Len(buf)]>>))] = "\n"

(***************************************************************************)
(* Result<()> of a &mut self method: the writer keeps what was written     *)
(* before the error.                                                       *)
(***************************************************************************)
Ok(w) == [ok |-> TRUE, panic |-> FALSE, w |-> w]
Err(w) == [ok |-> FALSE, panic |-> FALSE, w |-> w]
\* a Rust panic (arithmetic on usize) unwinds through the caller
Panic(w) == [ok |-> FALSE, panic |-> TRUE, w |-> w]

(***************************************************************************)
(* MarkdownWriter                                                          *)
(***************************************************************************)
new == [buffer |-> <<>>,
        current_bold |-> FALSE,
        current_italic |-> FALSE,
        current_strikethrough |-> FALSE]

push_str(w, pieces) == [w EXCEPT !.buffer = @ \o pieces]

finish(w) == w.buffer

\* variant: the paragraph boundary leaves the open markers as they are
close_formatting_none(w) == w

close_formatting(w) ==
    LET w1 == IF w.current_strikethrough
              THEN [push_str(w, <<"~~">>) EXCEPT !.current_strikethrough = FALSE]
              ELSE w
        w2 == IF w1.current_italic
              THEN [push_str(w1, <<"*">>) EXCEPT !.current_italic = FALSE]
              ELSE w1
    IN  IF w2.current_bold
        THEN [push_str(w2, <<"**">>) EXCEPT !.current_bold = FALSE]
        ELSE w2

\* variant: markers are written per run, whatever is already open
apply_formatting_per_run(w, bold, italic, strikethrough) ==
    LET c == close_formatting(w)
        o1 == IF bold THEN [push_str(c, <<"**">>) EXCEPT !.current_bold = TRUE] ELSE c
        o2 == IF italic THEN [push_str(o1, <<"*">>) EXCEPT !.current_italic = TRUE]
              ELSE o1
    IN  IF strikethrough
        THEN [push_str(o2, <<"~~">>) EXCEPT !.current_strikethrough = TRUE]
        ELSE o2

\* variant: markers of flags turning off are closed outer-to-inner
apply_formatting_close_outer_first(w, bold, italic, strikethrough) ==
    LET closes == (IF bold # w.current_bold /\ w.current_bold THEN <<"**">> ELSE <<>>)
                    \o (IF italic # w.current_italic /\ w.current_italic
                        THEN <<"*">> ELSE <<>>)
                    \o (IF strikethrough # w.current_strikethrough
                           /\ w.current_strikethrough
                        THEN <<"~~">> ELSE <<>>)
        opens == (IF bold # w.current_bold /\ bold THEN <<"**">> ELSE <<>>)
                   \o (IF italic # w.current_italic /\ italic THEN <<"*">> ELSE <<>>)
                   \o (IF strikethrough # w.current_strikethrough /\ strikethrough
                       THEN <<"~~">> ELSE <<>>)
    IN  [push_str(w, closes \o opens)
            EXCEPT !.current_bold = bold, !.current_italic = italic,
                   !.current_strikethrough = strikethrough]

apply_formatting(w, bold, italic, strikethrough) ==
    LET bold_changed == bold # w.current_bold
        italic_changed == italic # w.current_italic
        strike_changed == strikethrough # w.current_strikethrough
        c1 == IF strike_changed /\ w.current_strikethrough
              THEN [push_str(w, <<"~~">>) EXCEPT !.current_strikethrough = FALSE]
              ELSE w
        c2 == IF italic_changed /\ c1.current_italic
              THEN [push_str(c1, <<"*">>) EXCEPT !.current_italic = FALSE]
              ELSE c1
        c3 == IF bold_changed /\ c2.current_bold
              THEN [push_str(c2, <<"**">>) EXCEPT !.current_bold = FALSE]
              ELSE c2
        o1 == IF bold_changed /\ bold
              THEN [push_str(c3, <<"**">>) EXCEPT !.current_bold = TRUE]
              ELSE c3
        o2 == IF italic_changed /\ italic
              THEN [push_str(o1, <<"*">>) EXCEPT !.current_italic = TRUE]
              ELSE o1
        o3 == IF strike_changed /\ strikethrough
              THEN [push_str(o2, <<"~~">>) EXCEPT !.current_strikethrough = TRUE]
              ELSE o2
    IN  IF ~bold_changed /\ ~italic_changed /\ ~strike_changed THEN w ELSE o3

\* format_formula: the delimiters around converted math text
format_formula(opts, formula, inline) ==
    IF inline
    THEN IF opts.formula_style = "latex"
         THEN <<"\\(">> \o formula \o <<"\\)">>
         ELSE <<"$">> \o formula \o <<"$">>
    ELSE IF opts.formula_style = "latex"
         THEN <<"\\[">> \o formula \o <<"\\]">>
         ELSE <<"$$">> \o formula \o <<"$$">>

\* super::unicode: only digits have superscript/subscript equivalents here
can_convert_to_script(text) == \A i \in 1..Len(text) : IsAsciiDigit(text[i])

convert_to_superscript(text) == [i \in 1..Len(text) |-> "^" \o text[i]]

convert_to_subscript(text) == [i \in 1..Len(text) |-> "_" \o text[i]]

\* variant: a struck fragment in HTML style keeps bold and italic in the
\* persistent state
write_run_with_properties_del_persistent(w, opts, text, bold, italic, strikethrough, vertical_pos) ==
    IF vertical_pos # "none" THEN Ok(push_str(w, text))
    ELSE IF opts.strikethrough_style = "html" /\ strikethrough
    THEN Ok(push_str(apply_formatting(w, bold, italic, FALSE),
                     <<"<del>">> \o text \o <<"</del>">>))
    ELSE Ok(push_str(apply_formatting(w, bold, italic, strikethrough), text))

\* variant: a fragment with a vertical position goes through the marker
\* state machine before its text is written
write_run_with_properties_script_formatted(w, opts, text, bold, italic, strikethrough, vertical_pos) ==
    IF opts.strikethrough_style = "html" /\ strikethrough
    THEN Ok(push_str(close_formatting(w), <<"<del>">> \o text \o <<"</del>">>))
    ELSE Ok(push_str(apply_formatting(w, bold, italic, strikethrough),
                     IF vertical_pos = "superscript"
                     THEN <<"<sup>">> \o text \o <<"</sup>">>
                     ELSE IF vertical_pos = "subscript"
                     THEN <<"<sub>">> \o text \o <<"</sub>">>
                     ELSE text))

write_run_with_properties(w, opts, text, bold, italic, strikethrough, vertical_pos) ==
    IF vertical_pos # "none"
    THEN LET tagged(tag) == <<"<" \o tag \o ">">> \o text \o <<"</" \o tag \o ">">>
             sup == IF opts.script_style = "html" \/ ~can_convert_to_script(text)
                    THEN tagged("sup") ELSE convert_to_superscript(text)
             sub == IF opts.script_style = "html" \/ ~can_convert_to_script(text)
                    THEN tagged("sub") ELSE convert_to_subscript(text)
         IN  Ok(push_str(w, CASE vertical_pos = "superscript" -> sup
                              [] vertical_pos = "subscript" -> sub
                              [] OTHER -> text))
    ELSE IF opts.strikethrough_style = "html" /\ strikethrough
    THEN LET inner == CASE bold /\ italic -> <<"***">> \o text \o <<"***">>
                        [] bold /\ ~italic -> <<"**">> \o text \o <<"**">>
                        [] ~bold /\ italic -> <<"*">> \o text \o <<"*">>
                        [] OTHER -> text
         IN  Ok(push_str(close_formatting(w), <<"<del>">> \o inner \o <<"</del>">>))
    ELSE Ok(push_str(apply_formatting(w, bold, italic, strikethrough), text))

\* variant: an unset property counts as set
unwrap_or_true(x) == x # "false"

\* Option<bool>::unwrap_or(false)
unwrap_or_false(x) == x = "true"

\* Option<String> of a run's math: the LaTeX text its conversion yields
NoFormula == [some |-> FALSE, latex |-> <<>>]
SomeFormula(latex) == [some |-> TRUE, latex |-> latex]

\* extract_formula_from_run: Result<Option<String>>; Err when omml_formula()
\* fails, Some(markdown) when the run carries math (an empty conversion
\* included), None otherwise
extract_formula_from_run(opts, run) ==
    IF run.err = "formula" THEN [ok |-> FALSE, some |-> FALSE, value |-> <<>>]
    ELSE IF run.formula.some
    THEN [ok |-> TRUE, some |-> TRUE,
          value |-> format_formula(opts, run.formula.latex, TRUE)]
    ELSE [ok |-> TRUE, some |-> FALSE, value |-> <<>>]

\* Run::vertical_position: Normal is reported as None
vertical_position(run) ==
    IF run.vertical_position = "normal" THEN "none" ELSE run.vertical_position

write_run(w, opts, run) ==
    LET formula_markdown == extract_formula_from_run(opts, run)
    IN  IF ~formula_markdown.ok THEN Err(w)
        ELSE IF formula_markdown.some THEN Ok(push_str(w, formula_markdown.value))
        ELSE IF run.err = "text" THEN Err(w)
        ELSE IF run.text = <<>> THEN Ok(w)
        ELSE IF run.err = "props" THEN Err(w)
        ELSE write_run_with_properties(w, opts, run.text,
                                       unwrap_or_false(run.bold),
                                       unwrap_or_false(run.italic),
                                       unwrap_or_false(run.strikethrough),
                                       vertical_position(run))

(***************************************************************************)
(* List Normalizer                                                         *)
(***************************************************************************)
NoMatch == [some |-> FALSE, marker |-> <<>>, content |-> <<>>]
Match(m, c) == [some |-> TRUE, marker |-> m, content |-> c]

AllDigits(s) == \A i \in 1..Len(s) : IsAsciiDigit(s[i])

extract_ordered_list_marker(text) ==
    LET dot == Find(text, ".")
        paren == Find(text, ")")
        end_pos == Find2(text, ")", " ")
    IN  IF /\ dot > 0 /\ AllDigits(Slice(text, 0, dot))
           /\ Len(text) > dot + 1 /\ text[dot + 2] = " "
        THEN Match(Slice(text, 0, dot + 1), Slice(text, dot + 2, Len(text)))
        ELSE IF /\ paren > 0 /\ AllDigits(Slice(text, 0, paren))
                /\ Len(text) > paren + 1 /\ text[paren + 2] = " "
        THEN Match(Slice(text, 0, paren + 1), Slice(text, paren + 2, Len(text)))
        ELSE IF /\ StartsWith(text, <<"(">>) /\ end_pos >= 0
                /\ AllDigits(Slice(text, 1, end_pos))
        THEN Match(Slice(text, 0, end_pos + 1), Slice(text, end_pos + 2, Len(text)))
        ELSE NoMatch

\* let markers = ["-", "*", "\u{e2}\u{20ac}\u{a2}"]: hyphen, asterisk and a
\* three-character literal (seven bytes); the bullet U+2022 is not one of them
UnorderedMarkers == << <<"-">>, <<"*">>, <<"U+00E2", "U+20AC", "U+00A2">> >>

extract_unordered_list_marker(text) ==
    LET remaining(i) == SubSeq(text, Len(UnorderedMarkers[i]) + 1, Len(text))
        hit(i) == /\ StartsWith(text, UnorderedMarkers[i])
                  /\ remaining(i) # <<>>
                  /\ remaining(i)[1] \in {" ", "\t"}
    IN  IF \E i \in 1..Len(UnorderedMarkers) : hit(i)
        THEN LET i == CHOOSE j \in 1..Len(UnorderedMarkers) :
                          hit(j) /\ \A k \in 1..(j - 1) : ~hit(k)
             IN  Match(UnorderedMarkers[i], TrimStart(remaining(i)))
        ELSE NoMatch

\* usize division: a zero divisor panics (reported as level -1)
calculate_indent_level(opts, text) ==
    LET leading == ByteLen(text) - ByteLen(TrimStart(text))
    IN  IF opts.list_indent = 0 THEN -1 ELSE leading \div opts.list_indent

NoListItem == [list_type |-> "none", level |-> 0, marker |-> <<>>, content |-> <<>>]

detect_list_item(opts, untrimmed) ==
    LET text == TrimStart(untrimmed)
        ord == extract_ordered_list_marker(text)
        unord == extract_unordered_list_marker(text)
    IN  IF ord.some
        THEN [list_type |-> "ordered", level |-> calculate_indent_level(opts, text),
              marker |-> ord.marker, content |-> ord.content]
        ELSE IF unord.some
        THEN [list_type |-> "unordered", level |-> calculate_indent_level(opts, text),
              marker |-> unord.marker, content |-> unord.content]
        ELSE NoListItem

\* str::trim_start_matches(char) / trim_end_matches(char)
RECURSIVE TrimStartChar(_, _)
TrimStartChar(s, c) ==
    IF s # <<>> /\ Head(s) = c THEN TrimStartChar(Tail(s), c) ELSE s

RECURSIVE TrimEndChar(_, _)
TrimEndChar(s, c) ==
    IF s # <<>> /\ s[Len(s)] = c THEN TrimEndChar(SubSeq(s, 1, Len(s) - 1), c) ELSE s

\* str::trim_start_matches(&str): strips the prefix while it repeats
RECURSIVE TrimStartMatches(_, _)
TrimStartMatches(s, pat) ==
    IF pat # <<>> /\ StartsWith(s, pat)
    THEN TrimStartMatches(SubSeq(s, Len(pat) + 1, Len(s)), pat)
    ELSE s

\* marker normalisation of write_paragraph's plain-text branch and of
\* write_list_item_from_runs (the two are the same code)
normalize_marker(list_info) ==
    IF list_info.list_type = "unordered" THEN <<"-">>
    ELSE IF Contains(list_info.marker, ".") THEN list_info.marker
    ELSE IF StartsWith(list_info.marker, <<"(">>) /\ EndsWith(list_info.marker, <<")">>)
         THEN Slice(list_info.marker, 1, Len(list_info.marker) - 1) \o <<".">>
    ELSE Replace(list_info.marker, ")", ".")

\* marker normalisation of write_paragraph's no-runs fallback
fallback_marker(list_info) ==
    IF list_info.list_type = "unordered" THEN <<"-">>
    ELSE IF Contains(list_info.marker, ".") THEN list_info.marker
    ELSE IF StartsWith(list_info.marker, <<"(">>)
         THEN TrimEndChar(TrimStartChar(list_info.marker, "("), ")") \o <<".">>
    ELSE <<"1", ".">>

list_indent_of(opts, list_info) == Repeat(" ", list_info.level * opts.list_indent)

(***************************************************************************)
(* Paragraph writing                                                       *)
(***************************************************************************)
\* extract_text_from_runs: Err when a run's text() fails
runs_text_fails(runs) == \E i \in 1..Len(runs) : runs[i].err = "text"

extract_text_from_runs(runs) == Concat([i \in 1..Len(runs) |-> runs[i].text])

\* the loop of write_list_item_from_runs from run i on
RECURSIVE list_runs_loop(_, _, _, _, _, _)
list_runs_loop(w, opts, runs, i, accumulated_len, marker_end_pos) ==
    IF i > Len(runs) THEN Ok(w)
    ELSE LET run_text == runs[i].text
             run_len == ByteLen(run_text)
             skip_chars == marker_end_pos - accumulated_len
         IN  IF runs[i].err = "text" THEN Err(w)
             ELSE IF accumulated_len + run_len <= marker_end_pos
             THEN list_runs_loop(w, opts, runs, i + 1, accumulated_len + run_len,
                                 marker_end_pos)
             ELSE IF /\ accumulated_len < marker_end_pos
                     /\ accumulated_len + run_len > marker_end_pos
             THEN IF ~IsCharBoundary(run_text, skip_chars) THEN Panic(w)
                  ELSE list_runs_loop(
                           push_str(w, ByteSuffix(run_text, skip_chars)),
                           opts, runs, i + 1, accumulated_len + run_len,
                           marker_end_pos)
             ELSE LET r == write_run(w, opts, runs[i])
                  IN  IF ~r.ok THEN r
                      ELSE list_runs_loop(r.w, opts, runs, i + 1,
                                          accumulated_len + run_len, marker_end_pos)

write_list_item_from_runs(w, opts, runs, list_info) ==
    list_runs_loop(
        push_str(w, list_indent_of(opts, list_info) \o normalize_marker(list_info)
                    \o <<" ">>),
        opts, runs, 1, 0, ByteLen(list_info.marker) + 1)

\* for run in runs { self.write_run(&run)?; }
RECURSIVE write_runs(_, _, _)
write_runs(w, opts, runs) ==
    IF runs = <<>> THEN Ok(w)
    ELSE LET r == write_run(w, opts, Head(runs))
         IN  IF ~r.ok THEN r ELSE write_runs(r.w, opts, Tail(runs))

\* the run loop of write_paragraph_with_display_formulas
RECURSIVE formula_runs_loop(_, _)
formula_runs_loop(w, runs) ==
    IF runs = <<>> THEN Ok(w)
    ELSE IF Head(runs).err = "text" THEN Err(w)
    ELSE formula_runs_loop(IF TrimIsEmpty(Head(runs).text) THEN w
                           ELSE push_str(w, Head(runs).text),
                           Tail(runs))

write_paragraph_with_display_formulas(w, opts, p, display_formulas) ==
    IF p.err = "runs" THEN Err(w)
    ELSE LET r == formula_runs_loop(w, p.runs)
             w1 == IF ~EndsWithNewline(r.w.buffer) THEN push_str(r.w, <<"\n">>)
                   ELSE r.w
             formulas == Concat([i \in 1..Len(display_formulas) |->
                            format_formula(opts, display_formulas[i], FALSE)
                                \o <<"\n">>])
         IN  IF ~r.ok THEN r ELSE Ok(push_str(w1, formulas))

\* the body of write_paragraph up to the paragraph-boundary close
paragraph_body(w, opts, p) ==
    IF opts.include_styles
    THEN IF p.err = "runs" THEN Err(w)
         ELSE IF p.runs = <<>>
         THEN IF p.err = "text" THEN Err(w)
              ELSE IF p.text = <<>> THEN Ok(w)
              ELSE LET list_info == detect_list_item(opts, p.text)
                   IN  IF list_info.level < 0 THEN Panic(w)
                       ELSE IF list_info.list_type # "none"
                       THEN Ok(push_str(w,
                               list_indent_of(opts, list_info)
                                   \o fallback_marker(list_info) \o <<" ">>
                                   \o TrimStart(TrimStartMatches(TrimStart(p.text),
                                                                 list_info.marker))))
                       ELSE Ok(push_str(w, p.text))
         ELSE IF runs_text_fails(p.runs) THEN Err(w)
              ELSE LET list_info == detect_list_item(opts, extract_text_from_runs(p.runs))
                   IN  IF list_info.level < 0 THEN Panic(w)
                       ELSE IF list_info.list_type # "none"
                       THEN write_list_item_from_runs(w, opts, p.runs, list_info)
                       ELSE write_runs(w, opts, p.runs)
    ELSE IF p.err = "text" THEN Err(w)
         ELSE LET list_info == detect_list_item(opts, p.text)
              IN  IF list_info.level < 0 THEN Panic(w)
                  ELSE IF list_info.list_type # "none"
                  THEN Ok(push_str(w, list_indent_of(opts, list_info)
                                          \o normalize_marker(list_info) \o <<" ">>
                                          \o list_info.content))
                  ELSE Ok(push_str(w, p.text))

write_paragraph(w, opts, p) ==
    IF p.err = "formulas" THEN Err(w)
    ELSE IF p.display_formulas # <<>>
    THEN LET r == write_paragraph_with_display_formulas(w, opts, p, p.display_formulas)
         IN  IF ~r.ok THEN r ELSE Ok(push_str(r.w, <<"\n\n">>))
    ELSE LET r == paragraph_body(w, opts, p)
         IN  IF ~r.ok THEN r
             ELSE Ok(push_str(close_formatting(r.w), <<"\n\n">>))

(***************************************************************************)
(* Table Span Analyzer.  Grid columns and row indices are 1-based here     *)
(* (the code's index plus one).                                            *)
(***************************************************************************)
TABLE_PARALLEL_THRESHOLD == 20

CellSpan_new == [colspan |-> 1, rowspan |-> 1, skip |-> FALSE]
CellSpan_skipped == [colspan |-> 1, rowspan |-> 1, skip |-> TRUE]

RECURSIVE SumSpans(_)
SumSpans(cells) == IF cells = <<>> THEN 0 ELSE Head(cells).grid_span + SumSpans(Tail(cells))

MaxOf(ns) == IF ns = <<>> THEN 0
             ELSE CHOOSE m \in {ns[i] : i \in 1..Len(ns)} : \A i \in 1..Len(ns) : ns[i] <= m

\* CellData of every cell: grid_span().unwrap_or(1), v_merge().ok().flatten()
extract_cell_data(rows) ==
    [r \in 1..Len(rows) |->
        [c \in 1..Len(rows[r].cells) |->
            [grid_span |-> rows[r].cells[c].grid_span,
             v_merge |-> rows[r].cells[c].v_merge]]]

\* first pass: the maximum grid width
max_grid_cols_of(cell_data) ==
    MaxOf([r \in 1..Len(cell_data) |-> SumSpans(cell_data[r])])

\* while grid_col < max_grid_cols && spans[row_idx][grid_col].skip
RECURSIVE skip_covered(_, _, _)
skip_covered(row_spans, grid_col, max_grid_cols) ==
    IF grid_col <= max_grid_cols /\ row_spans[grid_col].skip
    THEN skip_covered(row_spans, grid_col + 1, max_grid_cols)
    ELSE grid_col

\* for offset in 1..colspan: spans[row][grid_col + offset] = skipped()
mark_colspan(row_spans, grid_col, colspan) ==
    [g \in 1..Len(row_spans) |->
        IF g > grid_col /\ g < grid_col + colspan THEN CellSpan_skipped
        ELSE row_spans[g]]

\* the downward scan of the Restart branch from row next_row_idx on
RECURSIVE restart_scan(_, _, _, _, _, _)
restart_scan(spans, cell_data, next_row_idx, grid_col, colspan, rowspan) ==
    IF next_row_idx > Len(cell_data) \/ next_row_idx > Len(spans)
    THEN [spans |-> spans, rowspan |-> rowspan]
    ELSE IF /\ grid_col <= Len(cell_data[next_row_idx])
            /\ cell_data[next_row_idx][grid_col].v_merge = "continue"
    THEN restart_scan(
             [spans EXCEPT ![next_row_idx] =
                 mark_colspan([@ EXCEPT ![grid_col] = CellSpan_skipped],
                              grid_col, colspan)],
             cell_data, next_row_idx + 1, grid_col, colspan, rowspan + 1)
    ELSE [spans |-> spans, rowspan |-> rowspan]

\* for cell in row_cells, from cell cell_idx on
RECURSIVE span_row_loop(_, _, _, _, _, _)
span_row_loop(spans, cell_data, row_idx, cell_idx, grid_col0, max_grid_cols) ==
    IF cell_idx > Len(cell_data[row_idx]) THEN spans
    ELSE LET grid_col == skip_covered(spans[row_idx], grid_col0, max_grid_cols)
             cell == cell_data[row_idx][cell_idx]
             colspan == cell.grid_span
             s1 == [spans EXCEPT ![row_idx] =
                       mark_colspan([@ EXCEPT ![grid_col].colspan = colspan],
                                    grid_col, colspan)]
             sc == restart_scan(s1, cell_data, row_idx + 1, grid_col, colspan, 1)
             s2 == IF cell.v_merge = "restart"
                   THEN [sc.spans EXCEPT ![row_idx][grid_col].rowspan = sc.rowspan]
                   ELSE s1
         IN  IF grid_col > max_grid_cols THEN spans
             ELSE span_row_loop(s2, cell_data, row_idx, cell_idx + 1,
                                grid_col + colspan, max_grid_cols)

\* for (row_idx, row_cells) in cell_data.iter().enumerate(), from row_idx on;
\* spans holds one row per row of cell_data
RECURSIVE span_rows_loop(_, _, _, _)
span_rows_loop(spans, cell_data, row_idx, max_grid_cols) ==
    IF row_idx > Len(cell_data) \/ row_idx > Len(spans) THEN spans
    ELSE span_rows_loop(
             span_row_loop(spans, cell_data, row_idx, 1, 1, max_grid_cols),
             cell_data, row_idx + 1, max_grid_cols)

\* the span grid of analyze_table_spans for rows whose accessors succeed
span_grid(rows) ==
    LET cell_data == extract_cell_data(rows)
        max_grid_cols == max_grid_cols_of(cell_data)
    IN  span_rows_loop(
            [r \in 1..Len(rows) |-> [g \in 1..max_grid_cols |-> CellSpan_new]],
            cell_data, 1, max_grid_cols)

rows_fail(table) ==
    table.err = "rows" \/ \E r \in 1..Len(table.rows) : table.rows[r].err = "cells"

\* analyze_table_spans: [ok, spans]
analyze_table_spans(table, use_parallel) ==
    IF table.err = "rows" THEN [ok |-> FALSE, spans |-> <<>>]
    ELSE IF table.rows = <<>> THEN [ok |-> TRUE, spans |-> <<>>]
    ELSE IF rows_fail(table) THEN [ok |-> FALSE, spans |-> <<>>]
    ELSE [ok |-> TRUE, spans |-> span_grid(table.rows)]

(***************************************************************************)
(* Cell Data Extractor                                                     *)
(***************************************************************************)
text_fails(table) ==
    \E r \in 1..Len(table.rows) :
        \E c \in 1..Len(table.rows[r].cells) : table.rows[r].cells[c].err = "text"

\* extract_table_cell_data: [ok, cell_data], the texts of every row in order
extract_table_cell_data(table, use_parallel) ==
    IF table.err = "rows" THEN [ok |-> FALSE, cell_data |-> <<>>]
    ELSE IF table.rows = <<>> THEN [ok |-> TRUE, cell_data |-> <<>>]
    ELSE IF rows_fail(table) \/ text_fails(table) THEN [ok |-> FALSE, cell_data |-> <<>>]
    ELSE [ok |-> TRUE,
          cell_data |-> [r \in 1..Len(table.rows) |->
                            [c \in 1..Len(table.rows[r].cells) |->
                                table.rows[r].cells[c].text]]]

(***************************************************************************)
(* Escaper                                                                 *)
(***************************************************************************)
\* the while loop of escape_markdown_to_buffer from byte offset pos on
RECURSIVE escape_markdown_loop(_, _)
escape_markdown_loop(text, pos) ==
    IF pos >= Len(text) THEN <<>>
    ELSE LET rest == Slice(text, pos, Len(text))
             pipe_pos == Find(rest, "|")
             newline_pos == Find(rest, "\n")
             next_special ==
                 IF pipe_pos >= 0
                 THEN IF newline_pos >= 0
                      THEN pos + (IF pipe_pos < newline_pos THEN pipe_pos
                                  ELSE newline_pos)
                      ELSE pos + pipe_pos
                 ELSE pos + newline_pos
         IN  IF pipe_pos < 0 /\ newline_pos < 0 THEN rest
             ELSE Slice(text, pos, next_special)
                      \o (IF text[next_special + 1] = "|" THEN <<"\\|">> ELSE <<" ">>)
                      \o escape_markdown_loop(text, next_special + 1)

\* variant: the text is copied as it is
escape_markdown_unescaped(text) == text

escape_markdown_to_buffer(text) == escape_markdown_loop(text, 0)

\* [b'&', b'<', b'>', b'\n'].iter().filter_map(memchr(ch, &bytes[pos..])).min():
\* the offset in rest of the first of the four characters, -1 when none occurs
html_next_special(rest) ==
    LET found == {p \in {Find(rest, "&"), Find(rest, "<"), Find(rest, ">"),
                         Find(rest, "\n")} : p >= 0}
    IN  IF found = {} THEN -1
        ELSE CHOOSE p \in found : \A q \in found : p <= q

\* the while loop of escape_html_to_buffer from byte offset pos on
RECURSIVE escape_html_loop(_, _)
escape_html_loop(text, pos) ==
    IF pos >= Len(text) THEN <<>>
    ELSE LET rest == Slice(text, pos, Len(text))
             next == html_next_special(rest)
             special_pos == pos + next
         IN  IF next < 0 THEN rest
             ELSE Slice(text, pos, special_pos)
                      \o (CASE text[special_pos + 1] = "&" -> <<"&amp;">>
                            [] text[special_pos + 1] = "<" -> <<"&lt;">>
                            [] text[special_pos + 1] = ">" -> <<"&gt;">>
                            [] OTHER -> <<"<br>">>)
                      \o escape_html_loop(text, special_pos + 1)

\* variant: the text is copied as it is
escape_html_unescaped(text) == text

escape_html_to_buffer(text) == escape_html_loop(text, 0)

(***************************************************************************)
(* Table Renderer                                                          *)
(***************************************************************************)
\* the cell at which the scan of table_has_merged_cells stops in a row:
\* [res, visited] with res "true" (merge attribute found at cell visited),
\* "false" (all cells looked at) or "err" (cells() failed)
merged_row_scan(row) ==
    LET merged(c) == row.cells[c].grid_span > 1 \/ row.cells[c].v_merge # "none"
    IN  IF row.err = "cells" THEN [res |-> "err", visited |-> 0]
        ELSE IF \E c \in 1..Len(row.cells) : merged(c)
        THEN [res |-> "true",
              visited |-> CHOOSE c \in 1..Len(row.cells) :
                              merged(c) /\ \A d \in 1..(c - 1) : ~merged(d)]
        ELSE [res |-> "false", visited |-> Len(row.cells)]

\* the row at which the scan stops, Len(rows) + 1 when it runs to the end
merged_scan_stop(rows) ==
    IF \E r \in 1..Len(rows) : merged_row_scan(rows[r]).res # "false"
    THEN CHOOSE r \in 1..Len(rows) :
             /\ merged_row_scan(rows[r]).res # "false"
             /\ \A q \in 1..(r - 1) : merged_row_scan(rows[q]).res = "false"
    ELSE Len(rows) + 1

\* table_has_merged_cells: "true", "false" or "err"
table_has_merged_cells(table) ==
    IF table.err = "rows" THEN "err"
    ELSE IF merged_scan_stop(table.rows) > Len(table.rows) THEN "false"
    ELSE merged_row_scan(table.rows[merged_scan_stop(table.rows)]).res

markdown_row(row_texts) ==
    <<"|">> \o Concat([c \in 1..Len(row_texts) |->
                          <<" ">> \o escape_markdown_to_buffer(row_texts[c]) \o <<" |">>])
        \o <<"\n">>

\* the buffer a loop iteration starts from is a value, evaluated before the
\* iteration runs
Written(w) == Len(w.buffer) >= 0

\* for text in row_texts { push(' '); write_markdown_escaped(text); push_str(" |") }
RECURSIVE markdown_cells_seq(_, _)
markdown_cells_seq(w, row_texts) ==
    IF row_texts = <<>> \/ ~Written(w) THEN w
    ELSE markdown_cells_seq(
             push_str(push_str(push_str(w, <<" ">>),
                               escape_markdown_to_buffer(Head(row_texts))),
                      <<" |">>),
             Tail(row_texts))

\* one iteration of the sequential loop over the data rows
markdown_seq_row(w, row_texts) ==
    push_str(markdown_cells_seq(push_str(w, <<"|">>), row_texts), <<"\n">>)

\* the sequential loop over the data rows, pushing into the writer's buffer
RECURSIVE markdown_rows_seq(_, _)
markdown_rows_seq(w, data_rows) ==
    IF data_rows = <<>> \/ ~Written(w) THEN w
    ELSE markdown_rows_seq(markdown_seq_row(w, Head(data_rows)), Tail(data_rows))

\* variant: the separator row has a single segment
markdown_header_one_segment(w, cell_data) ==
    push_str(markdown_cells_seq(push_str(w, <<"|">>), cell_data[1]),
             <<"\n", "|", "----------|", "\n">>)

\* the header row and the separator row
markdown_header(w, cell_data) ==
    LET header == push_str(markdown_cells_seq(push_str(w, <<"|">>), cell_data[1]),
                           <<"\n">>)
    IN  push_str(push_str(push_str(header, <<"|">>),
                          Repeat("----------|", Len(cell_data[1]))),
                 <<"\n">>)

write_markdown_table(w, opts, table) ==
    LET ex == extract_table_cell_data(table, opts.use_parallel)
        cell_data == ex.cell_data
        separator == markdown_header(w, cell_data)
        \* parallel path: one private buffer per row, concatenated in row order
        row_strings == [r \in 1..(Len(cell_data) - 1) |-> markdown_row(cell_data[r + 1])]
    IN  IF ~ex.ok THEN Err(w)
        ELSE IF cell_data = <<>> THEN Ok(w)
        ELSE IF opts.use_parallel /\ Len(cell_data) > TABLE_PARALLEL_THRESHOLD
        THEN Ok(push_str(separator, Concat(row_strings)))
        ELSE Ok(markdown_rows_seq(separator, Tail(cell_data)))

\* variant: cells are written without span attributes
\* cell_indent: Option<&str>; Some("") and None differ
NoIndent == [some |-> FALSE, value |-> <<>>]
SomeIndent(indent) == [some |-> TRUE, value |-> indent]

format_cell_unspanned(text, tag, span, cell_indent) ==
    cell_indent.value \o <<"<", tag, ">">> \o escape_html_to_buffer(text) \o <<"</", tag, ">">>
        \o (IF cell_indent.some THEN <<"\n">> ELSE <<>>)

format_cell(text, tag, span, cell_indent) ==
    cell_indent.value \o <<"<", tag>>
        \o (IF span.colspan > 1 THEN <<" colspan=\"", ToString(span.colspan), "\"">>
            ELSE <<>>)
        \o (IF span.rowspan > 1 THEN <<" rowspan=\"", ToString(span.rowspan), "\"">>
            ELSE <<>>)
        \o <<">">> \o escape_html_to_buffer(text) \o <<"</", tag, ">">>
        \o (IF cell_indent.some THEN <<"\n">> ELSE <<>>)

\* spans.get(row_idx).and_then(|r| r.get(grid_col)).unwrap_or_else(CellSpan::new)
span_at(spans, row_idx, grid_col) ==
    IF row_idx <= Len(spans) /\ grid_col <= Len(spans[row_idx])
    THEN spans[row_idx][grid_col] ELSE CellSpan_new

\* while grid_col < spans[row_idx].len() && spans[row_idx][grid_col].skip
RECURSIVE skip_merged(_, _, _)
skip_merged(spans, row_idx, grid_col) ==
    IF /\ row_idx <= Len(spans) /\ grid_col <= Len(spans[row_idx])
       /\ spans[row_idx][grid_col].skip
    THEN skip_merged(spans, row_idx, grid_col + 1)
    ELSE grid_col

\* the loop of format_row from text text_idx on: the cells it emits, in order
RECURSIVE format_row_cells(_, _, _, _, _, _, _)
format_row_cells(row_texts, row_idx, tag, spans, cell_indent, text_idx, grid_col0) ==
    IF text_idx > Len(row_texts) THEN <<>>
    ELSE LET grid_col == skip_merged(spans, row_idx, grid_col0)
             span_info == span_at(spans, row_idx, grid_col)
         IN  <<format_cell(row_texts[text_idx], tag, span_info, cell_indent)>>
                 \o format_row_cells(row_texts, row_idx, tag, spans, cell_indent,
                                     text_idx + 1, grid_col + span_info.colspan)

format_row(row_texts, row_idx, tag, spans, cell_indent) ==
    Concat(format_row_cells(row_texts, row_idx, tag, spans, cell_indent, 1, 1))

row_tag(row_idx) == IF row_idx = 1 THEN "th" ELSE "td"

\* variant: the parallel closure writes every row with the td tag
html_row_all_td(cell_data, spans, row_idx, styled, indent) ==
    IF styled
    THEN indent \o <<"<tr>\n">>
             \o format_row(cell_data[row_idx], row_idx, "td", spans,
                           SomeIndent(indent \o indent))
             \o indent \o <<"</tr>\n">>
    ELSE <<"<tr>">> \o format_row(cell_data[row_idx], row_idx, "td", spans, NoIndent)
             \o <<"</tr>">>

html_row(cell_data, spans, row_idx, styled, indent) ==
    IF styled
    THEN indent \o <<"<tr>\n">>
             \o format_row(cell_data[row_idx], row_idx, row_tag(row_idx), spans,
                           SomeIndent(indent \o indent))
             \o indent \o <<"</tr>\n">>
    ELSE <<"<tr>">>
             \o format_row(cell_data[row_idx], row_idx, row_tag(row_idx), spans, NoIndent)
             \o <<"</tr>">>

\* one iteration of the sequential loop over the rows
html_seq_row(w, cell_data, spans, row_idx, styled, indent) ==
    IF styled
    THEN push_str(push_str(push_str(push_str(w, indent), <<"<tr>\n">>),
                           format_row(cell_data[row_idx], row_idx, row_tag(row_idx),
                                      spans, SomeIndent(indent \o indent))),
                  indent \o <<"</tr>\n">>)
    ELSE push_str(push_str(push_str(w, <<"<tr>">>),
                           format_row(cell_data[row_idx], row_idx, row_tag(row_idx),
                                      spans, NoIndent)),
                  <<"</tr>">>)

\* the sequential loop over the rows, pushing into the writer's buffer
RECURSIVE html_rows_seq(_, _, _, _, _, _)
html_rows_seq(w, cell_data, spans, row_idx, styled, indent) ==
    IF row_idx > Len(cell_data) \/ ~Written(w) THEN w
    ELSE html_rows_seq(html_seq_row(w, cell_data, spans, row_idx, styled, indent),
                       cell_data, spans, row_idx + 1, styled, indent)

html_open(w, styled) == push_str(w, IF styled THEN <<"<table>\n">> ELSE <<"<table>">>)

write_html_table(w, opts, table, styled) ==
    LET ex == extract_table_cell_data(table, opts.use_parallel)
        cell_data == ex.cell_data
        an == analyze_table_spans(table, opts.use_parallel)
        indent == Repeat(" ", opts.html_table_indent)
        open == html_open(w, styled)
        \* parallel path: one private buffer per row, concatenated in row order
        row_htmls == [r \in 1..Len(cell_data) |->
                         html_row(cell_data, an.spans, r, styled, indent)]
        body == IF opts.use_parallel /\ Len(cell_data) > TABLE_PARALLEL_THRESHOLD
                THEN push_str(open, Concat(row_htmls))
                ELSE html_rows_seq(open, cell_data, an.spans, 1, styled, indent)
    IN  IF ~ex.ok THEN Err(w)
        ELSE IF cell_data = <<>> THEN Ok(w)
        ELSE IF ~an.ok THEN Err(w)
        ELSE Ok(push_str(body, <<"</table>">>))

\* which renderer write_table dispatches to
table_renderer(opts, has_merged_cells) ==
    IF opts.table_style = "markdown" /\ ~has_merged_cells THEN "markdown"
    ELSE IF opts.table_style \in {"minimal_html", "markdown"} THEN "minimal_html"
    ELSE "styled_html"

write_table(w, opts, table) ==
    LET has == table_has_merged_cells(table)
        renderer == table_renderer(opts, has = "true")
        r == CASE renderer = "markdown" -> write_markdown_table(w, opts, table)
               [] renderer = "minimal_html" -> write_html_table(w, opts, table, FALSE)
               [] OTHER -> write_html_table(w, opts, table, TRUE)
    IN  IF has = "err" THEN Err(w)
        ELSE IF ~r.ok THEN r
        ELSE Ok(push_str(r.w, <<"\n\n">>))

(***************************************************************************)
(* Inputs                                                                  *)
(***************************************************************************)
OptionBool == {"none", "false", "true"}

MkRun(text, b, i, s) ==
    [text |-> text, bold |-> b, italic |-> i, strikethrough |-> s,
     vertical_position |-> "none", formula |-> NoFormula, err |-> "none"]

DefaultOptions ==
    [include_metadata |-> FALSE, include_styles |-> TRUE, use_parallel |-> FALSE,
     table_style |-> "markdown", script_style |-> "html",
     strikethrough_style |-> "markdown", formula_style |-> "latex",
     list_indent |-> 2, html_table_indent |-> 2]

NoPara == [text |-> <<>>, runs |-> <<>>, display_formulas |-> <<>>, err |-> "none"]

NoTable == [rows |-> <<>>, err |-> "none"]

NoCalls == [cells |-> <<>>, text |-> <<>>, grid_span |-> <<>>, v_merge |-> <<>>]

NoResult == [ok |-> FALSE, value |-> <<>>]

\* Ok(None) of Presentation::metadata(); also the value outside conversions
NoMetadata ==
    [err |-> "none", some |-> FALSE, yaml |-> [ok |-> TRUE, value |-> <<>>]]
\* metadata() returns Err
FailingMetadata ==
    [err |-> "metadata", some |-> FALSE, yaml |-> [ok |-> FALSE, value |-> <<>>]]
\* metadata whose to_yaml_front_matter() answers yaml: [ok, value]
SomeMetadata(yaml) == [err |-> "none", some |-> TRUE, yaml |-> yaml]

NoDoc ==
    /\ elements = <<>>
    /\ idx = 0
    /\ element_strings = <<>>
    /\ next_idx = <<>>
    /\ metadata = NoMetadata
    /\ result = NoResult

(***************************************************************************)
(* Run stream: fragments written one after another through write_run into  *)
(* one writer, then the paragraph-boundary close of write_paragraph.       *)
(* para.runs holds the runs written so far.                                *)
(***************************************************************************)
FmtRuns ==
    {MkRun(<<"a">>, b, i, s) : b \in {"none", "true"}, i \in {"false", "true"},
                               s \in {"none", "true"}}

FmtInit ==
    /\ options \in {[DefaultOptions EXCEPT !.strikethrough_style = st] :
                        st \in {"markdown", "html"}}
    /\ writer = new
    /\ pc = "open"
    /\ para = NoPara
    /\ nruns = 0
    /\ cur_table = NoTable
    /\ cur_spans = <<>>
    /\ calls = NoCalls
    /\ NoDoc

FmtWriteRun ==
    /\ pc = "open"
    /\ nruns < MaxRuns
    /\ \E run \in FmtRuns :
          /\ writer' = write_run(writer, options, run).w
          /\ para' = [para EXCEPT !.runs = Append(@, run)]
    /\ nruns' = nruns + 1
    /\ UNCHANGED <<options, pc, tableVars, docVars>>

FmtCloseParagraph ==
    /\ pc = "open"
    /\ writer' = push_str(close_formatting(writer), <<"\n\n">>)
    /\ pc' = "closed"
    /\ UNCHANGED <<options, para, nruns, tableVars, docVars>>

FmtNext == FmtWriteRun \/ FmtCloseParagraph

SpecFmt == FmtInit /\ [][FmtNext]_vars

(***************************************************************************)
(* One paragraph rendered by write_paragraph into a fresh writer.  The     *)
(* paragraph text ranges over every string of the list alphabet; its runs  *)
(* are absent (formats with direct paragraph text), one run, or two runs   *)
(* splitting the text at any offset.                                       *)
(***************************************************************************)
ListAlphabet == {" ", "2", ".", ")", "(", "-", "x"}

ListIndents == {1, 2}

\* texts with whitespace other than the space and with characters outside
\* ASCII: a carriage return before the marker, the three-character third
\* literal of `markers` as a marker (alone, after one and after two spaces),
\* and the bullet U+2022
UnicodeTexts ==
    {<<"\r", "-", " ", "x">>,
     <<"U+00A0", "2", ".", " ", "x">>,
     <<"U+00E2", "U+20AC", "U+00A2", " ", "x">>,
     <<" ", "U+00E2", "U+20AC", "U+00A2", " ", "x">>,
     <<" ", " ", "U+00E2", "U+20AC", "U+00A2", " ", "x">>,
     <<"U+2022", " ", "x">>}

ParaTexts == UNION {[1..n -> ListAlphabet] : n \in 0..MaxTextLen} \cup UnicodeTexts

PlainRun(text) == MkRun(text, "none", "none", "none")

RunSplits(text) ==
    {<<>>, <<PlainRun(text)>>}
        \cup {<<PlainRun(SubSeq(text, 1, k)), PlainRun(SubSeq(text, k + 1, Len(text)))>> :
                 k \in 1..(Len(text) - 1)}

MkPara(text, runs) ==
    [text |-> text, runs |-> runs, display_formulas |-> <<>>, err |-> "none"]

ParaInit ==
    /\ options \in {[DefaultOptions EXCEPT !.include_styles = st, !.list_indent = li] :
                        st \in BOOLEAN, li \in ListIndents}
    /\ \E text \in ParaTexts :
          \E runs \in (IF options.include_styles THEN RunSplits(text)
                       ELSE {<<PlainRun(text)>>}) :
              para = MkPara(text, runs)
    /\ writer = new
    /\ pc = "start"
    /\ nruns = 0
    /\ cur_table = NoTable
    /\ cur_spans = <<>>
    /\ calls = NoCalls
    /\ NoDoc

\* Paragraph::to_markdown_with_options: a new writer, then
\* writer.write_paragraph(self)?; Ok(writer.finish().trim_end().to_string())
WriteParagraph ==
    /\ pc = "start"
    /\ \E r \in {write_paragraph(writer, options, para)} :
          /\ writer' = r.w
          /\ pc' = IF r.ok THEN "done" ELSE IF r.panic THEN "panic" ELSE "err"
          /\ result' = [ok |-> r.ok,
                        value |-> IF r.ok THEN TrimEnd(Bytes(finish(r.w))) ELSE <<>>]
    /\ UNCHANGED <<options, para, nruns, tableVars, elements, idx, element_strings,
                   next_idx, metadata>>

ParaNext == WriteParagraph

SpecPara == ParaInit /\ [][ParaNext]_vars

(***************************************************************************)
(* One paragraph rendered by write_paragraph under every small value of    *)
(* the list_indent option, zero included.  list_indent is a usize field    *)
(* of MarkdownOptions that the caller sets freely.                         *)
(***************************************************************************)
IndentValues == {0, 1, 2}

IndentInit ==
    /\ options \in {[DefaultOptions EXCEPT !.include_styles = st, !.list_indent = li] :
                        st \in BOOLEAN, li \in IndentValues}
    /\ \E text \in ParaTexts : para = MkPara(text, <<PlainRun(text)>>)
    /\ writer = new
    /\ pc = "start"
    /\ nruns = 0
    /\ cur_table = NoTable
    /\ cur_spans = <<>>
    /\ calls = NoCalls
    /\ NoDoc

SpecIndent == IndentInit /\ [][ParaNext]_vars

(***************************************************************************)
(* One styled paragraph rendered by write_paragraph: its runs are any      *)
(* sequence of up to MaxRuns runs of StyledRuns, with or without a display *)
(* formula.                                                                *)
(***************************************************************************)
HelloRun == PlainRun(<<"H", "e", "l", "l", "o", " ">>)

WorldRun == MkRun(<<"w", "o", "r", "l", "d">>, "true", "none", "none")

BangRun == PlainRun(<<"!">>)

StyledRuns ==
    {HelloRun, WorldRun, BangRun, PlainRun(<<"-", " ">>),
     MkRun(<<"a">>, "none", "true", "false"), MkRun(<<"a">>, "true", "true", "true"),
     [MkRun(<<"2">>, "true", "none", "none") EXCEPT !.vertical_position = "superscript"]}

StyledInit ==
    /\ options \in {[DefaultOptions EXCEPT !.include_styles = st,
                                          !.strikethrough_style = ss] :
                        st \in BOOLEAN, ss \in {"markdown", "html"}}
    /\ \E n \in 0..MaxRuns : \E runs \in [1..n -> StyledRuns] :
          \E df \in {<<>>, <<<<"x">>>>} :
              para = [MkPara(extract_text_from_runs(runs), runs)
                         EXCEPT !.display_formulas = df]
    /\ writer = new
    /\ pc = "start"
    /\ nruns = 0
    /\ cur_table = NoTable
    /\ cur_spans = <<>>
    /\ calls = NoCalls
    /\ NoDoc

SpecStyled == StyledInit /\ [][ParaNext]_vars

(***************************************************************************)
(* One cell text written through write_markdown_escaped into a fresh       *)
(* writer; para.text holds the text.                                       *)
(***************************************************************************)
EscapeAlphabet == {"a", "b", "c", "|", "\n"}

EscapeTexts == UNION {[1..n -> EscapeAlphabet] : n \in 0..MaxTextLen}

EscapeInit ==
    /\ options = DefaultOptions
    /\ para \in {MkPara(text, <<>>) : text \in EscapeTexts}
    /\ writer = new
    /\ pc = "start"
    /\ nruns = 0
    /\ cur_table = NoTable
    /\ cur_spans = <<>>
    /\ calls = NoCalls
    /\ NoDoc

write_markdown_escaped ==
    /\ pc = "start"
    /\ writer' = push_str(writer, escape_markdown_to_buffer(para.text))
    /\ pc' = "done"
    /\ UNCHANGED <<options, para, nruns, tableVars, docVars>>

EscapeNext == write_markdown_escaped

SpecEscape == EscapeInit /\ [][EscapeNext]_vars

(***************************************************************************)
(* A run stream in which some runs carry a vertical position               *)
(***************************************************************************)
ScriptRun(text, b, i, s, pos) == [MkRun(text, b, i, s) EXCEPT !.vertical_position = pos]

ScriptRuns ==
    {PlainRun(<<"a">>), MkRun(<<"a">>, "true", "none", "none"),
     MkRun(<<"a">>, "none", "true", "true"),
     ScriptRun(<<"2">>, "true", "true", "true", "superscript"),
     ScriptRun(<<"2">>, "none", "none", "none", "subscript"),
     ScriptRun(<<"a">>, "false", "true", "none", "superscript"),
     ScriptRun(<<"a">>, "none", "none", "true", "subscript"),
     ScriptRun(<<"a">>, "true", "none", "none", "normal")}

ScriptInit ==
    /\ options \in {[DefaultOptions EXCEPT !.strikethrough_style = st,
                                          !.script_style = sc] :
                        st \in {"markdown", "html"}, sc \in {"html", "unicode"}}
    /\ writer = new
    /\ pc = "open"
    /\ para = NoPara
    /\ nruns = 0
    /\ cur_table = NoTable
    /\ cur_spans = <<>>
    /\ calls = NoCalls
    /\ NoDoc

ScriptWriteRun ==
    /\ pc = "open"
    /\ nruns < MaxRuns
    /\ \E run \in ScriptRuns :
          /\ writer' = write_run(writer, options, run).w
          /\ para' = [para EXCEPT !.runs = Append(@, run)]
    /\ nruns' = nruns + 1
    /\ UNCHANGED <<options, pc, tableVars, docVars>>

ScriptNext == ScriptWriteRun \/ FmtCloseParagraph

SpecScript == ScriptInit /\ [][ScriptNext]_vars

(***************************************************************************)
(* Run::to_markdown_with_options: one run written by a fresh writer, whose  *)
(* buffer is returned                                                      *)
(***************************************************************************)
RunInputs ==
    {ScriptRun(text, b, i, s, pos) :
        text \in {<<>>, <<"a">>, <<"2">>}, b \in OptionBool, i \in OptionBool,
        s \in OptionBool, pos \in {"none", "superscript", "subscript"}}

RunInit ==
    /\ options \in {[DefaultOptions EXCEPT !.strikethrough_style = st,
                                          !.script_style = sc] :
                        st \in {"markdown", "html"}, sc \in {"html", "unicode"}}
    /\ para \in {MkPara(run.text, <<run>>) : run \in RunInputs}
    /\ writer = new
    /\ pc = "run_start"
    /\ nruns = 0
    /\ cur_table = NoTable
    /\ cur_spans = <<>>
    /\ calls = NoCalls
    /\ NoDoc

\* writer.write_run(self)?; Ok(writer.finish())
RunToMarkdown ==
    /\ pc = "run_start"
    /\ \E r \in {write_run(writer, options, para.runs[1])} :
          /\ writer' = r.w
          /\ result' = [ok |-> r.ok, value |-> IF r.ok THEN finish(r.w) ELSE <<>>]
    /\ pc' = "run_done"
    /\ nruns' = 1
    /\ UNCHANGED <<options, para, tableVars, elements, idx, element_strings, next_idx,
                   metadata>>

RunNext == RunToMarkdown

SpecRun == RunInit /\ [][RunNext]_vars

(***************************************************************************)
(* escape_html_to_buffer applied to one text, writing into an empty buffer *)
(***************************************************************************)
HtmlAlphabet == {"a", "&", "<", ">", "\n"}

HtmlScenarioText == <<"a", "&", "b", "<", "c", ">", "d", "\n">>

HtmlTexts == UNION {[1..n -> HtmlAlphabet] : n \in 0..MaxTextLen} \cup {HtmlScenarioText}

HtmlEscapeInit ==
    /\ options = DefaultOptions
    /\ para \in {MkPara(text, <<>>) : text \in HtmlTexts}
    /\ writer = new
    /\ pc = "html_start"
    /\ nruns = 0
    /\ cur_table = NoTable
    /\ cur_spans = <<>>
    /\ calls = NoCalls
    /\ NoDoc

escape_html ==
    /\ pc = "html_start"
    /\ writer' = push_str(writer, escape_html_to_buffer(para.text))
    /\ pc' = "html_done"
    /\ UNCHANGED <<options, para, nruns, tableVars, docVars>>

HtmlEscapeNext == escape_html

SpecHtmlEscape == HtmlEscapeInit /\ [][HtmlEscapeNext]_vars

(***************************************************************************)
(* One table rendered by write_table into a fresh writer.  Every cell has  *)
(* a horizontal-merge width and a vertical-merge state; its text names its *)
(* position (A, B, ... in row-major order).                                *)
(***************************************************************************)
Letters == <<"A", "B", "C", "D", "E", "F", "G", "H", "I", "J", "K", "L",
             "M", "N", "O", "P">>

VMergeStates == {"none", "restart", "continue"}

MkCell(text, grid_span, v_merge) ==
    [text |-> text, grid_span |-> grid_span, v_merge |-> v_merge, err |-> "none"]

\* rows of 0..MaxCols cells with every combination of merge attributes
RowShapes ==
    UNION {[1..n -> (1..MaxSpan) \X VMergeStates] : n \in 0..MaxCols}

MkTable(shapes) ==
    [rows |-> [r \in 1..Len(shapes) |->
                  [cells |-> [c \in 1..Len(shapes[r]) |->
                                 MkCell(<<Letters[(r - 1) * MaxCols + c]>>,
                                        shapes[r][c][1], shapes[r][c][2])],
                   err |-> "none"]],
     err |-> "none"]

Tables == {MkTable(shapes) : shapes \in UNION {[1..n -> RowShapes] : n \in 0..MaxRows}}

\* accessor invocations made by one write_table call on a table whose
\* accessors succeed: table_has_merged_cells scans up to the first merge
\* attribute, extract_table_cell_data reads every row and text, and
\* analyze_table_spans (HTML renderers only) reads every row and merge
\* attribute again
table_calls(opts, t) ==
    LET rows == t.rows
        stop == merged_scan_stop(rows)
        visited == IF stop <= Len(rows) THEN merged_row_scan(rows[stop]).visited ELSE 0
        html == rows # <<>> /\ table_renderer(opts, stop <= Len(rows)) # "markdown"
        scanned(r, c) == r < stop \/ (r = stop /\ c <= visited)
        scanned_v(r, c) ==
            r < stop \/ (r = stop /\ (c < visited
                                      \/ (c = visited /\ rows[r].cells[c].grid_span <= 1)))
        n(b) == IF b THEN 1 ELSE 0
    IN  [cells |-> [r \in 1..Len(rows) |-> n(r <= stop) + 1 + n(html)],
         text |-> [r \in 1..Len(rows) |-> [c \in 1..Len(rows[r].cells) |-> 1]],
         grid_span |-> [r \in 1..Len(rows) |->
                           [c \in 1..Len(rows[r].cells) |-> n(scanned(r, c)) + n(html)]],
         v_merge |-> [r \in 1..Len(rows) |->
                         [c \in 1..Len(rows[r].cells) |-> n(scanned_v(r, c)) + n(html)]]]

TableInit ==
    /\ options \in {[DefaultOptions EXCEPT !.table_style = ts] :
                        ts \in {"markdown", "minimal_html", "styled_html"}}
                    \cup {[DefaultOptions EXCEPT !.table_style = "styled_html",
                                                !.html_table_indent = 0]}
    /\ cur_table \in Tables
    /\ writer = new
    /\ pc = "start"
    /\ para = NoPara
    /\ nruns = 0
    /\ cur_spans = <<>>
    /\ calls = NoCalls
    /\ NoDoc

\* Table::to_markdown_with_options: a new writer, then
\* writer.write_table(self)?; Ok(writer.finish().trim_end().to_string())
WriteTable ==
    /\ pc = "start"
    /\ \E r \in {write_table(writer, options, cur_table)} :
          /\ writer' = r.w
          /\ pc' = IF r.ok THEN "done" ELSE "err"
          /\ result' = [ok |-> r.ok,
                        value |-> IF r.ok THEN TrimEnd(Bytes(finish(r.w))) ELSE <<>>]
          /\ cur_spans' = IF /\ r.ok /\ cur_table.rows # <<>>
                             /\ table_renderer(options,
                                    table_has_merged_cells(cur_table) = "true")
                                    # "markdown"
                          THEN analyze_table_spans(cur_table, options.use_parallel).spans
                          ELSE <<>>
    /\ calls' = table_calls(options, cur_table)
    /\ UNCHANGED <<options, para, nruns, cur_table, elements, idx, element_strings,
                   next_idx, metadata>>

TableNext == WriteTable

SpecTable == TableInit /\ [][TableNext]_vars

(***************************************************************************)
(* Document::to_markdown_with_options.  A document is a short head of      *)
(* arbitrary elements, alone or padded with plain paragraphs up to the     *)
(* parallel threshold.  The parallel map is split into tasks, each a       *)
(* contiguous range of the elements: the first FreeShards elements are a   *)
(* task each, the others are split into NumWorkers ranges.  The tasks      *)
(* complete in any order.  A panic of a rendering call unwinds through     *)
(* the conversion, which then returns nothing (pc = "panic").              *)
(***************************************************************************)
PARALLEL_THRESHOLD == 50

\* front matter as to_yaml_front_matter() may answer it
FrontMatter ==
    <<"-", "-", "-", "\n", "t", ":", " ", "T", "\n", "-", "-", "-", "\n", "\n">>

\* MarkdownWriter::write_metadata
write_metadata(w, opts, md) ==
    IF ~opts.include_metadata THEN Ok(w)
    ELSE IF ~md.yaml.ok THEN Err(w)
    ELSE IF md.yaml.value # <<>> THEN Ok(push_str(w, md.yaml.value))
    ELSE Ok(w)

\* lines 22-30: metadata_md of a document, [ok, value]; metadata() is called
\* only when include_metadata is on
document_metadata_md(opts, md) ==
    IF ~opts.include_metadata THEN [ok |-> TRUE, value |-> <<>>]
    ELSE IF md.err # "none" THEN [ok |-> FALSE, value |-> <<>>]
    ELSE LET r == write_metadata(new, opts, md)
         IN  IF r.ok THEN [ok |-> TRUE, value |-> finish(r.w)]
             ELSE [ok |-> FALSE, value |-> <<>>]

write_element(w, opts, element) ==
    IF element.kind = "paragraph" THEN write_paragraph(w, opts, element.para)
    ELSE write_table(w, opts, element.table)

\* variant: a shard leaves its buffer empty
render_shard_empty(opts, element) == [panic |-> FALSE, value |-> <<>>]

\* one shard of the parallel map: a fresh writer, a returned error
\* discarded, a panic passed on; [panic, value]
render_shard(opts, element) ==
    CHOOSE shard \in {[panic |-> r.panic, value |-> finish(r.w)] :
                         r \in {write_element(new, opts, element)}} : TRUE

\* the sequential loop from element i on: Ok, Err or Panic with the writer
RECURSIVE sequential_loop(_, _, _, _)
sequential_loop(w, opts, elems, i) ==
    IF i > Len(elems) THEN Ok(w)
    ELSE LET r == write_element(w, opts, elems[i])
         IN  IF ~r.ok THEN r ELSE sequential_loop(r.w, opts, elems, i + 1)

\* content_md of the sequential path: a value, an error or a panic
sequential_path(opts, elems) ==
    LET r == sequential_loop(new, opts, elems, 1)
    IN  [ok |-> r.ok, panic |-> r.panic, value |-> IF r.ok THEN finish(r.w) ELSE <<>>]

\* content_md of the parallel path: the buffers concatenated in document
\* order, or a panic when a shard panics
parallel_path(opts, elems) ==
    LET shards == [i \in 1..Len(elems) |-> render_shard(opts, elems[i])]
        panics == \E i \in 1..Len(elems) : shards[i].panic
    IN  [ok |-> ~panics, panic |-> panics,
         value |-> IF panics THEN <<>>
                   ELSE Concat([i \in 1..Len(elems) |-> shards[i].value])]

\* variant: the element count has to exceed the threshold
use_parallel_path_above(opts, elems) ==
    opts.use_parallel /\ Len(elems) > PARALLEL_THRESHOLD

use_parallel_path(opts, elems) ==
    opts.use_parallel /\ Len(elems) >= PARALLEL_THRESHOLD

\* the units that are a task of the parallel map each
FreeShards == MaxHead + 1

NumTasks == FreeShards + NumWorkers

\* the k-th of NumWorkers ranges over n units starts at ChunkStart(k, n)
ChunkStart(k, n) == ((k - 1) * n) \div NumWorkers + 1

\* task t of a parallel map over n units covers the units
\* TaskStart(t, n) .. TaskStart(t + 1, n) - 1
TaskStart(t, n) ==
    IF t <= FreeShards THEN t
    ELSE FreeShards + ChunkStart(t - FreeShards, n - FreeShards)

ParagraphElement(p) == [kind |-> "paragraph", para |-> p, table |-> NoTable]
TableElement(t) == [kind |-> "table", para |-> NoPara, table |-> t]

BoldRun(text) == MkRun(text, "true", "none", "none")

\* plain paragraph "a"
PlainParagraph == ParagraphElement(MkPara(<<"a">>, <<PlainRun(<<"a">>)>>))
\* paragraph with one bold run
BoldParagraph == ParagraphElement(MkPara(<<"a">>, <<BoldRun(<<"a">>)>>))
\* list item "- a"
ListParagraph ==
    ParagraphElement(MkPara(<<"-", " ", "a">>, <<PlainRun(<<"-", " ", "a">>)>>))
\* paragraph with one display-level formula and no run text
FormulaParagraph ==
    ParagraphElement([MkPara(<<>>, <<>>) EXCEPT !.display_formulas = <<<<"x">>>>])
\* paragraph whose second run fails while its properties are read
FailingParagraph ==
    ParagraphElement(MkPara(<<"a", "b">>,
        <<BoldRun(<<"a">>), [PlainRun(<<"b">>) EXCEPT !.err = "props"]>>))
\* paragraph whose second run is empty: its failing properties are not read
UnreadParagraph ==
    ParagraphElement(MkPara(<<"a">>,
        <<BoldRun(<<"a">>), [PlainRun(<<>>) EXCEPT !.err = "props"]>>))
\* 1x1 table
PlainTable ==
    TableElement([rows |-> <<[cells |-> <<MkCell(<<"A">>, 1, "none")>>, err |-> "none"]>>,
                  err |-> "none"])
\* table whose row fails to enumerate its cells
FailingTable ==
    TableElement([rows |-> <<[cells |-> <<>>, err |-> "cells"]>>, err |-> "none"])

DocElements == {PlainParagraph, BoldParagraph, ListParagraph, FormulaParagraph,
                FailingParagraph, UnreadParagraph, PlainTable, FailingTable}

Heads == UNION {[1..n -> DocElements] : n \in 0..MaxHead}

Padded(head, n) == [i \in 1..n |-> IF i <= Len(head) THEN head[i] ELSE PlainParagraph]

DocSizes(head) == {Len(head), PARALLEL_THRESHOLD - 1, PARALLEL_THRESHOLD}

\* include_metadata with the metadata of the document: metadata() failing
\* (and not called), front matter, empty front matter, to_yaml_front_matter
\* failing, metadata() failing
DocMetadata ==
    {<<FALSE, FailingMetadata>>,
     <<TRUE, SomeMetadata([ok |-> TRUE, value |-> FrontMatter])>>,
     <<TRUE, SomeMetadata([ok |-> TRUE, value |-> <<>>])>>,
     <<TRUE, SomeMetadata([ok |-> FALSE, value |-> <<>>])>>,
     <<TRUE, FailingMetadata>>}

\* write_paragraph(para)? / write_table(table)? returns Err for the element
element_fails(opts, element) ==
    \E r \in {write_element(new, opts, element)} : ~r.ok /\ ~r.panic

DocInit ==
    /\ \E up \in BOOLEAN : \E li \in {0, 2} : \E md \in DocMetadata :
          /\ options = [DefaultOptions EXCEPT !.use_parallel = up, !.list_indent = li,
                                              !.include_metadata = md[1]]
          /\ metadata = md[2]
    /\ \E head \in Heads : \E n \in DocSizes(head) : elements = Padded(head, n)
    /\ writer = new
    /\ pc = "start"
    /\ para = NoPara
    /\ nruns = 0
    /\ cur_table = NoTable
    /\ cur_spans = <<>>
    /\ calls = NoCalls
    /\ idx = 0
    /\ element_strings = <<>>
    /\ next_idx = <<>>
    /\ result = NoResult

\* lines 22-36: the metadata block, then the choice of the path
Dispatch ==
    /\ pc = "start"
    /\ IF ~document_metadata_md(options, metadata).ok
       THEN /\ pc' = "done"
            /\ result' = [ok |-> FALSE, value |-> <<>>]
            /\ UNCHANGED <<idx, element_strings, next_idx>>
       ELSE IF use_parallel_path(options, elements)
       THEN /\ pc' = "par"
            /\ element_strings' = [i \in 1..Len(elements) |-> <<"pending">>]
            /\ next_idx' = [t \in 1..NumTasks |-> TaskStart(t, Len(elements))]
            /\ UNCHANGED <<idx, result>>
       ELSE /\ pc' = "seq"
            /\ idx' = 1
            /\ UNCHANGED <<element_strings, next_idx, result>>
    /\ UNCHANGED <<options, writer, para, nruns, tableVars, elements, metadata>>

\* lines 73-82: one iteration of the sequential loop; an Err is returned,
\* a panic unwinds
SeqElement ==
    /\ pc = "seq"
    /\ idx <= Len(elements)
    /\ \E r \in {write_element(writer, options, elements[idx])} :
          IF r.ok
          THEN /\ writer' = r.w
               /\ idx' = idx + 1
               /\ UNCHANGED <<pc, result>>
          ELSE IF r.panic
          THEN /\ pc' = "panic"
               /\ UNCHANGED <<writer, idx, result>>
          ELSE /\ writer' = r.w
               /\ pc' = "done"
               /\ result' = [ok |-> FALSE, value |-> <<>>]
               /\ idx' = idx
    /\ UNCHANGED <<options, para, nruns, tableVars, elements, element_strings, next_idx,
                   metadata>>

\* lines 84-88: writer.finish() and Ok(format!(metadata_md, content_md))
SeqFinish ==
    /\ pc = "seq"
    /\ idx > Len(elements)
    /\ result' = [ok |-> TRUE,
                  value |-> document_metadata_md(options, metadata).value
                                \o finish(writer)]
    /\ pc' = "done"
    /\ UNCHANGED <<options, writer, para, nruns, tableVars, elements, idx,
                   element_strings, next_idx, metadata>>

\* lines 39-53: task t renders the elements of its range, each with a
\* fresh writer into its own buffer; a panic of one of them unwinds
ParShard(t) ==
    /\ pc = "par"
    /\ next_idx[t] < TaskStart(t + 1, Len(elements))
    /\ \E shards \in {[i \in next_idx[t]..(TaskStart(t + 1, Len(elements)) - 1) |->
                          render_shard(options, elements[i])]} :
          IF \E i \in DOMAIN shards : shards[i].panic
          THEN /\ pc' = "panic"
               /\ UNCHANGED <<element_strings, next_idx>>
          ELSE /\ element_strings' =
                      [i \in 1..Len(elements) |->
                          IF i \in DOMAIN shards THEN shards[i].value
                          ELSE element_strings[i]]
               /\ next_idx' = [next_idx EXCEPT ![t] = TaskStart(t + 1, Len(elements))]
               /\ pc' = pc
    /\ UNCHANGED <<options, writer, para, nruns, tableVars, elements, idx, metadata,
                   result>>

\* lines 53-64 and 88: collect, concatenate in document order,
\* Ok(format!(metadata_md, content_md))
ParJoin ==
    /\ pc = "par"
    /\ \A t \in 1..NumTasks : next_idx[t] = TaskStart(t + 1, Len(elements))
    /\ result' = [ok |-> TRUE,
                  value |-> document_metadata_md(options, metadata).value
                                \o Concat(element_strings)]
    /\ pc' = "done"
    /\ UNCHANGED <<options, writer, para, nruns, tableVars, elements, idx,
                   element_strings, next_idx, metadata>>

DocNext ==
    \/ Dispatch
    \/ SeqElement
    \/ SeqFinish
    \/ \E t \in 1..NumTasks : ParShard(t)
    \/ ParJoin

SpecDoc == DocInit /\ [][DocNext]_vars

(***************************************************************************)
(* One table rendered by write_table row by row: the rows of the           *)
(* sequential loops one after another into the writer's buffer, or, above  *)
(* TABLE_PARALLEL_THRESHOLD with use_parallel, each row by a task of the   *)
(* parallel map into a private buffer of element_strings, the tasks in any *)
(* order, the buffers joined in row order.  The table has                  *)
(* a head of up to MaxHead rows of any kind, padded with plain rows.       *)
(***************************************************************************)
RowKinds == {"wide", "restart", "continue", "special", "failing"}

RowOfKind(kind, r) ==
    LET t(c) == <<Letters[(((r - 1) * 2 + c - 1) % Len(Letters)) + 1]>>
    IN  CASE kind = "wide" -> [cells |-> <<MkCell(t(1), 2, "none")>>, err |-> "none"]
          [] kind = "restart" ->
                 [cells |-> <<MkCell(t(1), 1, "restart"), MkCell(t(2), 1, "none")>>,
                  err |-> "none"]
          [] kind = "continue" ->
                 [cells |-> <<MkCell(t(1), 1, "continue"), MkCell(t(2), 1, "none")>>,
                  err |-> "none"]
          [] kind = "special" ->
                 [cells |-> <<MkCell(<<"|", "\n">>, 1, "none"),
                              MkCell(<<"<", "&">>, 1, "none")>>,
                  err |-> "none"]
          [] kind = "failing" -> [cells |-> <<>>, err |-> "cells"]
          [] OTHER ->
                 [cells |-> <<MkCell(t(1), 1, "none"), MkCell(t(2), 1, "none")>>,
                  err |-> "none"]

RowTables ==
    {[rows |-> [r \in 1..n |-> RowOfKind(IF r <= Len(head) THEN head[r] ELSE "plain", r)],
      err |-> "none"] :
        head \in UNION {[1..h -> RowKinds] : h \in 0..MaxHead},
        n \in {0, 2, TABLE_PARALLEL_THRESHOLD, TABLE_PARALLEL_THRESHOLD + 1}}

RowsInit ==
    /\ options \in {[DefaultOptions EXCEPT !.table_style = ts, !.use_parallel = up] :
                        ts \in {"markdown", "minimal_html", "styled_html"},
                        up \in BOOLEAN}
    /\ cur_table \in RowTables
    /\ writer = new
    /\ pc = "table_start"
    /\ para = NoPara
    /\ nruns = 0
    /\ cur_spans = <<>>
    /\ calls = NoCalls
    /\ NoDoc

\* the renderer write_table dispatches to for a table whose scan succeeds
row_renderer(opts, table) ==
    table_renderer(opts, table_has_merged_cells(table) = "true")

\* index of the first row rendered by the row loop: cell_data[1..] for a
\* pipe table, every row for an HTML table
first_unit(renderer) == IF renderer = "markdown" THEN 2 ELSE 1

\* what follows the rows: the closing tag and the spacing after the table
table_close(renderer) ==
    (IF renderer = "markdown" THEN <<>> ELSE <<"</table>">>) \o <<"\n\n">>

\* write_table up to the row loop: merge scan, extraction, span analysis,
\* header or opening tag, and the choice of the path
RowsBegin ==
    /\ pc = "table_start"
    /\ \E has \in {table_has_merged_cells(cur_table)} :
       \E ex \in {extract_table_cell_data(cur_table, options.use_parallel)} :
          LET renderer == table_renderer(options, has = "true")
              an == analyze_table_spans(cur_table, options.use_parallel)
              units == Len(ex.cell_data) - first_unit(renderer) + 1
          IN  IF has = "err" \/ ~ex.ok
                 \/ (ex.cell_data # <<>> /\ renderer # "markdown" /\ ~an.ok)
              THEN /\ pc' = "table_err"
                   /\ UNCHANGED <<writer, cur_spans, idx, element_strings, next_idx>>
              ELSE IF ex.cell_data = <<>>
              THEN /\ writer' = push_str(writer, <<"\n\n">>)
                   /\ pc' = "table_done"
                   /\ UNCHANGED <<cur_spans, idx, element_strings, next_idx>>
              ELSE /\ writer' = IF renderer = "markdown"
                                THEN markdown_header(writer, ex.cell_data)
                                ELSE html_open(writer, renderer = "styled_html")
                   /\ cur_spans' = IF renderer = "markdown" THEN <<>> ELSE an.spans
                   /\ IF /\ options.use_parallel
                         /\ Len(ex.cell_data) > TABLE_PARALLEL_THRESHOLD
                      THEN /\ pc' = "rows_par"
                           /\ element_strings' = [u \in 1..units |-> <<"pending">>]
                           /\ next_idx' = [t \in 1..NumTasks |-> TaskStart(t, units)]
                           /\ idx' = idx
                      ELSE /\ pc' = "rows_seq"
                           /\ idx' = first_unit(renderer)
                           /\ UNCHANGED <<element_strings, next_idx>>
    /\ UNCHANGED <<options, para, nruns, cur_table, calls, elements, metadata, result>>

\* one iteration of the sequential row loop
RowSeq ==
    /\ pc = "rows_seq"
    /\ idx <= Len(cur_table.rows)
    /\ LET renderer == row_renderer(options, cur_table)
           cell_data == extract_table_cell_data(cur_table, options.use_parallel).cell_data
       IN  writer' = IF renderer = "markdown"
                     THEN markdown_seq_row(writer, cell_data[idx])
                     ELSE html_seq_row(writer, cell_data, cur_spans, idx,
                                       renderer = "styled_html",
                                       Repeat(" ", options.html_table_indent))
    /\ idx' = idx + 1
    /\ UNCHANGED <<options, pc, para, nruns, tableVars, elements, element_strings,
                   next_idx, metadata, result>>

\* after the last row: the closing tag and the spacing of write_table
RowsSeqEnd ==
    /\ pc = "rows_seq"
    /\ idx > Len(cur_table.rows)
    /\ writer' = push_str(writer, table_close(row_renderer(options, cur_table)))
    /\ pc' = "table_done"
    /\ UNCHANGED <<options, para, nruns, tableVars, docVars>>

\* task t renders the rows of its range, each into that row's own buffer
RowShard(t) ==
    /\ pc = "rows_par"
    /\ next_idx[t] < TaskStart(t + 1, Len(element_strings))
    /\ \E renderer \in {row_renderer(options, cur_table)} :
       \E cell_data \in {extract_table_cell_data(cur_table, options.use_parallel).cell_data} :
          LET row_idx(u) == u + first_unit(renderer) - 1
          IN  element_strings' =
                  [u \in 1..Len(element_strings) |->
                      IF u < next_idx[t] \/ u >= TaskStart(t + 1, Len(element_strings))
                      THEN element_strings[u]
                      ELSE IF renderer = "markdown"
                      THEN markdown_row(cell_data[row_idx(u)])
                      ELSE html_row(cell_data, cur_spans, row_idx(u),
                                    renderer = "styled_html",
                                    Repeat(" ", options.html_table_indent))]
    /\ next_idx' = [next_idx EXCEPT ![t] = TaskStart(t + 1, Len(element_strings))]
    /\ UNCHANGED <<options, writer, pc, para, nruns, tableVars, elements, idx, metadata,
                   result>>

\* collect, push the row buffers in row order, then close as above
RowsJoin ==
    /\ pc = "rows_par"
    /\ \A t \in 1..NumTasks : next_idx[t] = TaskStart(t + 1, Len(element_strings))
    /\ writer' = push_str(push_str(writer, Concat(element_strings)),
                          table_close(row_renderer(options, cur_table)))
    /\ pc' = "table_done"
    /\ UNCHANGED <<options, para, nruns, tableVars, docVars>>

RowsNext ==
    \/ RowsBegin
    \/ RowSeq
    \/ RowsSeqEnd
    \/ \E t \in 1..NumTasks : RowShard(t)
    \/ RowsJoin

SpecRows == RowsInit /\ [][RowsNext]_vars

(***************************************************************************)
(* Presentation::to_markdown_with_options over the (slide_num, text) pairs *)
(* of extract_text_for_markdown, held in elements, with the metadata block *)
(* in front.  The parallel map is split into tasks as for a document.      *)
(***************************************************************************)
SLIDE_PARALLEL_THRESHOLD == 10

\* lines 21-29: metadata_md of a presentation, [ok, value]; metadata() is
\* called only when include_metadata is on and may answer None
presentation_metadata_md(opts, md) ==
    IF ~opts.include_metadata THEN [ok |-> TRUE, value |-> <<>>]
    ELSE IF md.err # "none" THEN [ok |-> FALSE, value |-> <<>>]
    ELSE IF ~md.some THEN [ok |-> TRUE, value |-> <<>>]
    ELSE LET r == write_metadata(new, opts, md)
         IN  IF r.ok THEN [ok |-> TRUE, value |-> finish(r.w)]
             ELSE [ok |-> FALSE, value |-> <<>>]

\* text.lines().next().unwrap_or(""): the text before the first "\n",
\* without a "\r" that stands right before that "\n"; a text without "\n"
\* is its own first line, a trailing "\r" included
first_line(text) ==
    IF Find(text, "\n") < 0 THEN text
    ELSE LET line == Slice(text, 0, Find(text, "\n"))
         IN  IF EndsWith(line, <<"\r">>) THEN SubSeq(line, 1, Len(line) - 1) ELSE line

\* the header, the blank line and the content of one slide
write_slide(w, slide) ==
    LET header_text == IF first_line(slide.text) = <<>>
                       THEN <<"# Slide ", ToString(slide.slide_num)>>
                       ELSE <<"# Slide ", ToString(slide.slide_num), " ">>
                                \o first_line(slide.text)
        w1 == push_str(push_str(w, header_text), <<"\n\n">>)
    IN  IF slide.text # <<>> THEN push_str(push_str(w1, slide.text), <<"\n\n">>)
        ELSE w1

\* variant: the slide buffers are joined without separators
join_slides_unseparated(res, slide_strings, i) == res \o Concat(slide_strings)

\* for (i, slide_md) in slide_strings.iter().enumerate(), from slide i on
RECURSIVE join_slides(_, _, _)
join_slides(res, slide_strings, i) ==
    IF i > Len(slide_strings) THEN res
    ELSE join_slides((IF i > 1 THEN res \o <<"\n\n---\n\n">> ELSE res)
                         \o slide_strings[i],
                     slide_strings, i + 1)

SlideTexts == {<<>>, <<"a">>, <<"a", "\n", "b">>, <<"\n", "b">>,
               <<"a", "\r", "\n", "b">>, <<"a", "\r">>}

Presentations ==
    {[i \in 1..n |-> [slide_num |-> i,
                       text |-> IF i <= Len(head) THEN head[i] ELSE <<"c">>]] :
        head \in UNION {[1..h -> SlideTexts] : h \in 0..MaxHead},
        n \in {0, 1, 2, SLIDE_PARALLEL_THRESHOLD - 1, SLIDE_PARALLEL_THRESHOLD}}

\* include_metadata with the metadata of the presentation: as for a
\* document, and metadata() answering None
PresMetadata == DocMetadata \cup {<<TRUE, NoMetadata>>}

\* a presentation about to be converted, its metadata one of mds
PresInitOver(mds) ==
    /\ \E up \in BOOLEAN : \E md \in mds :
          /\ options = [DefaultOptions EXCEPT !.use_parallel = up,
                                              !.include_metadata = md[1]]
          /\ metadata = md[2]
    /\ elements \in Presentations
    /\ writer = new
    /\ pc = "pres_start"
    /\ para = NoPara
    /\ nruns = 0
    /\ cur_table = NoTable
    /\ cur_spans = <<>>
    /\ calls = NoCalls
    /\ idx = 0
    /\ element_strings = <<>>
    /\ next_idx = <<>>
    /\ result = NoResult

PresInit == PresInitOver(PresMetadata)

\* lines 21-36: the metadata block, then the choice of the path
PresDispatch ==
    /\ pc = "pres_start"
    /\ IF ~presentation_metadata_md(options, metadata).ok
       THEN /\ pc' = "pres_done"
            /\ result' = [ok |-> FALSE, value |-> <<>>]
            /\ UNCHANGED <<idx, element_strings, next_idx>>
       ELSE IF options.use_parallel /\ Len(elements) >= SLIDE_PARALLEL_THRESHOLD
       THEN /\ pc' = "slides_par"
            /\ element_strings' = [i \in 1..Len(elements) |-> <<"pending">>]
            /\ next_idx' = [t \in 1..NumTasks |-> TaskStart(t, Len(elements))]
            /\ UNCHANGED <<idx, result>>
       ELSE /\ pc' = "slides_seq"
            /\ idx' = 1
            /\ UNCHANGED <<element_strings, next_idx, result>>
    /\ UNCHANGED <<options, writer, para, nruns, tableVars, elements, metadata>>

\* lines 83-104: one iteration of the sequential loop
SlideSeq ==
    /\ pc = "slides_seq"
    /\ idx <= Len(elements)
    /\ writer' = write_slide(IF idx > 1 THEN push_str(writer, <<"\n\n---\n\n">>)
                             ELSE writer,
                             elements[idx])
    /\ idx' = idx + 1
    /\ UNCHANGED <<options, pc, para, nruns, tableVars, elements, element_strings,
                   next_idx, metadata, result>>

\* lines 106-110: writer.finish() and Ok(format!(metadata_md, content_md))
SlidesSeqFinish ==
    /\ pc = "slides_seq"
    /\ idx > Len(elements)
    /\ result' = [ok |-> TRUE,
                  value |-> presentation_metadata_md(options, metadata).value
                                \o finish(writer)]
    /\ pc' = "pres_done"
    /\ UNCHANGED <<options, writer, para, nruns, tableVars, elements, idx,
                   element_strings, next_idx, metadata>>

\* lines 41-62: task t renders the slides of its range, each with a fresh
\* writer into its own buffer
SlideShard(t) ==
    /\ pc = "slides_par"
    /\ next_idx[t] < TaskStart(t + 1, Len(elements))
    /\ element_strings' =
           [i \in 1..Len(elements) |->
               IF i < next_idx[t] \/ i >= TaskStart(t + 1, Len(elements))
               THEN element_strings[i]
               ELSE finish(write_slide(new, elements[i]))]
    /\ next_idx' = [next_idx EXCEPT ![t] = TaskStart(t + 1, Len(elements))]
    /\ UNCHANGED <<options, writer, pc, para, nruns, tableVars, elements, idx, metadata,
                   result>>

\* lines 63-78 and 110: collect, join in slide order with separators,
\* Ok(format!(metadata_md, content_md))
SlidesJoin ==
    /\ pc = "slides_par"
    /\ \A t \in 1..NumTasks : next_idx[t] = TaskStart(t + 1, Len(elements))
    /\ result' = [ok |-> TRUE,
                  value |-> presentation_metadata_md(options, metadata).value
                                \o join_slides(<<>>, element_strings, 1)]
    /\ pc' = "pres_done"
    /\ UNCHANGED <<options, writer, para, nruns, tableVars, elements, idx,
                   element_strings, next_idx, metadata>>

PresNext ==
    \/ PresDispatch
    \/ SlideSeq
    \/ SlidesSeqFinish
    \/ \E t \in 1..NumTasks : SlideShard(t)
    \/ SlidesJoin

SpecPres == PresInit /\ [][PresNext]_vars

(***************************************************************************)
(* The three parallel-capable components side by side: a document (with a  *)
(* head over UnitElements), a table rendered row by row, a presentation.   *)
(***************************************************************************)
UnitElements == {BoldParagraph, PlainTable}

\* metadata off, and front matter in front of the content
UnitMetadata ==
    {<<FALSE, FailingMetadata>>,
     <<TRUE, SomeMetadata([ok |-> TRUE, value |-> FrontMatter])>>}

UnitsInit ==
    \/ /\ \E up \in BOOLEAN : \E md \in UnitMetadata :
             /\ options = [DefaultOptions EXCEPT !.use_parallel = up,
                                                 !.include_metadata = md[1]]
             /\ metadata = md[2]
       /\ \E head \in UNION {[1..n -> UnitElements] : n \in 0..MaxHead} :
             \E n \in DocSizes(head) : elements = Padded(head, n)
       /\ writer = new
       /\ pc = "start"
       /\ para = NoPara
       /\ nruns = 0
       /\ cur_table = NoTable
       /\ cur_spans = <<>>
       /\ calls = NoCalls
       /\ idx = 0
       /\ element_strings = <<>>
       /\ next_idx = <<>>
       /\ result = NoResult
    \/ RowsInit
    \/ PresInitOver(UnitMetadata)

UnitsNext == DocNext \/ RowsNext \/ PresNext

SpecUnits == UnitsInit /\ [][UnitsNext]_vars

(***************************************************************************)
(* Documents with failing elements: heads over ShardElements, alone on the *)
(* sequential path or padded to the threshold.                             *)
(***************************************************************************)
ShardElements == {BoldParagraph, ListParagraph, FailingParagraph, FailingTable}

ShardsInit ==
    /\ options \in {[DefaultOptions EXCEPT !.use_parallel = up, !.list_indent = li] :
                        up \in BOOLEAN, li \in {0, 2}}
    /\ metadata = NoMetadata
    /\ \E head \in UNION {[1..n -> ShardElements] : n \in 0..MaxHead} :
          \E n \in {Len(head), PARALLEL_THRESHOLD} : elements = Padded(head, n)
    /\ writer = new
    /\ pc = "start"
    /\ para = NoPara
    /\ nruns = 0
    /\ cur_table = NoTable
    /\ cur_spans = <<>>
    /\ calls = NoCalls
    /\ idx = 0
    /\ element_strings = <<>>
    /\ next_idx = <<>>
    /\ result = NoResult

SpecShards == ShardsInit /\ [][DocNext]_vars

(***************************************************************************)
(* Claims                                                                  *)
(***************************************************************************)
InlineMarkers == {"**", "*", "~~"}

\* scan the emitted markers with a stack of the markers still open
RECURSIVE MarkerScan(_, _)
MarkerScan(buf, stack) ==
    IF buf = <<>> THEN stack = <<>>
    ELSE IF Head(buf) \notin InlineMarkers THEN MarkerScan(Tail(buf), stack)
    ELSE IF stack # <<>> /\ stack[Len(stack)] = Head(buf)
         THEN MarkerScan(Tail(buf), SubSeq(stack, 1, Len(stack) - 1))
    ELSE IF \E i \in 1..Len(stack) : stack[i] = Head(buf) THEN FALSE
    ELSE MarkerScan(Tail(buf), Append(stack, Head(buf)))

\* C7: after any sequence of styled fragments (markdown strikethrough style)
\* and the paragraph-boundary close, the emitted markers are well nested:
\* every closing marker closes the most recently opened marker still open.
C7_WellNested ==
    (pc = "closed" /\ options.strikethrough_style = "markdown")
        => MarkerScan(writer.buffer, <<>>)

\* the three surface forms of an ordered item with digits "2" and content "x"
SurfaceForms == {<<"2", ".", " ", "x">>, <<"2", ")", " ", "x">>,
                 <<"(", "2", ")", " ", "x">>}

\* C9: on every paragraph rendering path the surface forms "d. X", "d) X"
\* and "(d) X" are rendered with the canonical marker "d." and content X.
C9_CanonicalMarker ==
    (pc = "done" /\ para.text \in SurfaceForms)
        => Bytes(writer.buffer) = <<"2", ".", " ", "x", "\n", "\n">>

\* C10: the level of a detected list item is the number of leading
\* whitespace characters of the untrimmed text divided by list_indent,
\* and the item is rendered with level * list_indent spaces of indentation.
C10_IndentLevel ==
    (pc = "done" /\ detect_list_item(options, para.text).list_type # "none")
        => /\ detect_list_item(options, para.text).level
                = LeadingWhiteChars(para.text) \div options.list_indent
           /\ LeadingWhiteChars(Bytes(writer.buffer))
                = (LeadingWhiteChars(para.text) \div options.list_indent)
                      * options.list_indent

\* C1: for a document whose accessors all succeed, the output of the
\* parallel path is byte-identical to the output of the sequential path.
C1_PathsAgree ==
    (/\ pc = "done" /\ use_parallel_path(options, elements)
     /\ document_metadata_md(options, metadata).ok
     /\ \A i \in 1..Len(elements) : ~element_fails(options, elements[i]))
        => /\ result.ok = sequential_path(options, elements).ok
           /\ Bytes(result.value)
                 = Bytes(document_metadata_md(options, metadata).value
                             \o sequential_path(options, elements).value)

\* C2: conversion is all-or-error on both paths: when an accessor fails for
\* some element, to_markdown_with_options returns an error, never Ok.
C2_AllOrError ==
    (pc = "done" /\ \E i \in 1..Len(elements) : element_fails(options, elements[i]))
        => ~result.ok

\* the grid column at which cell c of a row starts: one plus the widths of
\* the cells to its left
GridStart(cells, c) == 1 + SumSpans(SubSeq(cells, 1, c - 1))

\* the cell of a row that occupies grid column g, 0 when there is none
CellAt(cells, g) ==
    IF \E c \in 1..Len(cells) :
           GridStart(cells, c) <= g /\ g < GridStart(cells, c) + cells[c].grid_span
    THEN CHOOSE c \in 1..Len(cells) :
           GridStart(cells, c) <= g /\ g < GridStart(cells, c) + cells[c].grid_span
    ELSE 0

\* a table as a word processor writes it: every row fills the same grid
\* width, and a continue cell sits under a restart or continue cell of the
\* same grid column and width
WellFormed(t) ==
    /\ \A r \in 1..Len(t.rows) : SumSpans(t.rows[r].cells) = SumSpans(t.rows[1].cells)
    /\ \A r \in 1..Len(t.rows) : \A c \in 1..Len(t.rows[r].cells) :
          t.rows[r].cells[c].v_merge = "continue"
              => /\ r > 1
                 /\ \E d \in 1..Len(t.rows[r - 1].cells) :
                       /\ GridStart(t.rows[r - 1].cells, d) = GridStart(t.rows[r].cells, c)
                       /\ t.rows[r - 1].cells[d].grid_span = t.rows[r].cells[c].grid_span
                       /\ t.rows[r - 1].cells[d].v_merge \in {"restart", "continue"}

RECURSIVE RowTiling(_)
RowTiling(row_spans) ==
    IF row_spans = <<>> THEN 0
    ELSE (IF Head(row_spans).skip THEN 1 ELSE Head(row_spans).colspan)
             + RowTiling(Tail(row_spans))

\* C3 as stated: in every row of the grid returned by analyze_table_spans,
\* the sum of colspan over the non-skip entries plus the number of skip
\* entries equals max_grid_columns.
C3_SpanTiling ==
    (pc = "done" /\ cur_spans # <<>>)
        => \A r \in 1..Len(cur_spans) :
              RowTiling(cur_spans[r])
                  = max_grid_cols_of(extract_cell_data(cur_table.rows))

\* grid column h lies inside the colspan of a non-skip entry to its left
CoveredBy(row_spans, h) ==
    \E g \in 1..(h - 1) : ~row_spans[g].skip /\ h < g + row_spans[g].colspan

\* C3: for a table as a word processor writes it, in every row of the grid
\* returned by analyze_table_spans the non-skip entries and the skip
\* entries tile the row exactly: the sum of colspan
\* over the non-skip entries plus the number of skip entries that no
\* non-skip entry of the row covers with its colspan (the skip entries of
\* vertical merges) equals max_grid_columns.
C3_ExactTiling ==
    (pc = "done" /\ cur_spans # <<>> /\ WellFormed(cur_table))
        => \A r \in 1..Len(cur_spans) :
              RowTiling(SelectSeq(cur_spans[r], LAMBDA e : ~e.skip))
                  + Cardinality({h \in 1..Len(cur_spans[r]) :
                                    cur_spans[r][h].skip /\ ~CoveredBy(cur_spans[r], h)})
                  = max_grid_cols_of(extract_cell_data(cur_table.rows))

\* the number of consecutive rows from row r down whose cell occupying grid
\* column g is in state continue
RECURSIVE ChainLen(_, _, _)
ChainLen(rows, r, g) ==
    IF r > Len(rows) THEN 0
    ELSE IF /\ CellAt(rows[r].cells, g) # 0
            /\ rows[r].cells[CellAt(rows[r].cells, g)].v_merge = "continue"
    THEN 1 + ChainLen(rows, r + 1, g)
    ELSE 0

\* C4: a restart cell at grid column g of row r gets rowspan 1 + the number
\* of consecutive rows directly below whose cell at grid column g is in
\* state continue, and the grid positions of those cells are marked skip,
\* also when horizontally merged cells lie to the left of g.
C4_RestartRowspan ==
    (pc = "done" /\ cur_spans # <<>> /\ WellFormed(cur_table))
        => \A r \in 1..Len(cur_table.rows) : \A c \in 1..Len(cur_table.rows[r].cells) :
              LET cells == cur_table.rows[r].cells
                  g == GridStart(cells, c)
                  n == ChainLen(cur_table.rows, r + 1, g)
              IN  cells[c].v_merge = "restart"
                      => /\ cur_spans[r][g].rowspan = 1 + n
                         /\ \A k \in 1..n :
                               \A h \in g..(g + cells[c].grid_span - 1) :
                                   cur_spans[r + k][h].skip

\* the cells of the table that continue a vertical merge started above
ContinueTexts(t) ==
    UNION {{t.rows[r].cells[c].text[1] :
               c \in {d \in 1..Len(t.rows[r].cells) :
                          t.rows[r].cells[d].v_merge = "continue"}} :
           r \in 2..Len(t.rows)}

\* C5: in HTML rendering every row emits one <th>/<td> element per non-skip
\* grid position of the row and nothing for a skip position: a cell that
\* continues a vertical merge started above is not rendered (stated for the
\* well-formed tables).
C5_SkipNotRendered ==
    (pc = "done" /\ cur_spans # <<>> /\ WellFormed(cur_table))
        => /\ \A r \in 1..Len(cur_spans) :
                 Len(format_row_cells(
                         [c \in 1..Len(cur_table.rows[r].cells) |->
                             cur_table.rows[r].cells[c].text],
                         r, row_tag(r), cur_spans, NoIndent, 1, 1))
                     = Cardinality({g \in 1..Len(cur_spans[r]) : ~cur_spans[r][g].skip})
           /\ \A i \in 1..Len(writer.buffer) :
                 writer.buffer[i] \notin ContinueTexts(cur_table)

\* the computed span grid has no colspan or rowspan greater than 1
NoSpanAboveOne(grid) ==
    \A r \in 1..Len(grid) : \A g \in 1..Len(grid[r]) :
        grid[r][g].colspan <= 1 /\ grid[r][g].rowspan <= 1

\* C6: with table_style = markdown, write_table emits a pipe table if and
\* only if the computed span grid has no colspan or rowspan greater than 1
\* (so an orphan continue cell or a restart cell with nothing below it
\* still gives a pipe table).
C6_PipeIffNoSpans ==
    (pc = "done" /\ options.table_style = "markdown" /\ cur_table.rows # <<>>)
        => ((writer.buffer[1] = "|") <=> NoSpanAboveOne(span_grid(cur_table.rows)))

\* C8: during one write_table call each row's cells() accessor and each
\* cell's text, grid_span and v_merge accessors are invoked at most once.
C8_SinglePass ==
    pc = "done"
        => \A r \in 1..Len(calls.cells) :
              /\ calls.cells[r] <= 1
              /\ \A c \in 1..Len(calls.text[r]) :
                    /\ calls.text[r][c] <= 1
                    /\ calls.grid_span[r][c] <= 1
                    /\ calls.v_merge[r][c] <= 1

\* number of occurrences of a piece in a buffer
RECURSIVE Count(_, _)
Count(piece, buf) ==
    IF buf = <<>> THEN 0
    ELSE (IF Head(buf) = piece THEN 1 ELSE 0) + Count(piece, Tail(buf))

\* a write_run step of the run stream whose fragment goes through the marker
\* state machine writes, for each flag, one marker when the fragment's
\* desired value differs from the writer's current value and none otherwise,
\* and then the text
C14_Step ==
    (pc = "open" /\ nruns' = nruns + 1)
        => LET run == para'.runs[Len(para'.runs)]
               bold == unwrap_or_false(run.bold)
               italic == unwrap_or_false(run.italic)
               strikethrough == unwrap_or_false(run.strikethrough)
               added == SubSeq(writer'.buffer, Len(writer.buffer) + 1,
                               Len(writer'.buffer))
               markers(changed) == IF changed THEN 1 ELSE 0
           IN  ~(options.strikethrough_style = "html" /\ strikethrough)
                  => /\ Count("**", added) = markers(bold # writer.current_bold)
                     /\ Count("*", added) = markers(italic # writer.current_italic)
                     /\ Count("~~", added)
                           = markers(strikethrough # writer.current_strikethrough)
                     /\ added[Len(added)] = "a"
                     /\ Len(added) = 1 + Count("**", added) + Count("*", added)
                                       + Count("~~", added)

BoldOnlyRun == MkRun(<<"a">>, "true", "false", "none")

\* k consecutive bold runs followed by a non-bold run: one opening ** before
\* the first text and one closing ** before the plain text
C14_KBold ==
    \A k \in 1..(MaxRuns - 1) :
        para.runs = [i \in 1..k |-> BoldOnlyRun]
                        \o <<MkRun(<<"a">>, "none", "false", "none")>>
            => /\ Count("**", writer.buffer) = 2
               /\ SubSeq(writer.buffer, 1, k + 3)
                     = <<"**">> \o [i \in 1..k |-> "a"] \o <<"**", "a">>

\* C14: formatting markers are minimal across a run sequence: a fragment
\* whose desired (bold, italic, strikethrough) triple equals the open state
\* writes no marker, a marker is written for a flag only when its desired
\* value differs from the current one, and k bold runs followed by a
\* non-bold run give exactly one opening and one closing **.
C14_MinimalMarkers == [][C14_Step /\ C14_KBold']_vars

\* C14 witness: three bold runs and a plain run have been written
C14_Witness ==
    /\ pc = "open"
    /\ para.runs = <<BoldOnlyRun, BoldOnlyRun, BoldOnlyRun,
                     MkRun(<<"a">>, "none", "false", "none")>>
    /\ writer.buffer = <<"**", "a", "a", "a", "**", "a">>

ClosingMarkers == InlineMarkers \cup {"***"}

\* C15: after every successful write_paragraph the three formatting flags
\* are false, the output ends with the paragraph break, and every marker
\* opened inside the paragraph has been closed before that break; so the
\* writer reaches each element boundary with no marker open.
C15_ClosedAtBoundary ==
    pc = "done"
        => /\ ~writer.current_bold
           /\ ~writer.current_italic
           /\ ~writer.current_strikethrough
           /\ Len(writer.buffer) > 0
           /\ writer.buffer[Len(writer.buffer)] = "\n\n"
           /\ \A m \in ClosingMarkers :
                 Count(m, SubSeq(writer.buffer, 1, Len(writer.buffer) - 1)) % 2 = 0

\* C15 witness: a paragraph whose last run is bold has been written; the
\* marker it left open was closed before the break
C15_Witness ==
    /\ pc = "done"
    /\ options.include_styles
    /\ para.runs = <<HelloRun, WorldRun>>
    /\ para.display_formulas = <<>>
    /\ writer.buffer = HelloRun.text \o <<"**">> \o WorldRun.text \o <<"**", "\n\n">>

\* runs whose fragment goes through the marker state machine
ThroughStateMachine(opts, run) ==
    /\ run.vertical_position = "none"
    /\ ~(opts.strikethrough_style = "html" /\ unwrap_or_false(run.strikethrough))

\* number of places where a flag changes along the runs, from the closed
\* state before the first run to the closed state after the last
RECURSIVE Changes(_, _)
Changes(flags, current) ==
    IF flags = <<>> THEN (IF current THEN 1 ELSE 0)
    ELSE (IF Head(flags) # current THEN 1 ELSE 0) + Changes(Tail(flags), Head(flags))

NotMarker(piece) == piece \notin InlineMarkers

\* C16: with styles enabled a non-list paragraph is rendered as its runs'
\* texts in order, with markers only where the formatting changes, then the
\* forced close and the paragraph break; the runs "Hello " (plain), "world"
\* (bold), "!" (plain) render to "Hello **world**!" and the break.
C16_StyledParagraph ==
    (/\ pc = "done"
     /\ options.include_styles
     /\ para.runs # <<>>
     /\ para.display_formulas = <<>>
     /\ detect_list_item(options, extract_text_from_runs(para.runs)).list_type = "none"
     /\ \A i \in 1..Len(para.runs) : ThroughStateMachine(options, para.runs[i]))
        => /\ SelectSeq(writer.buffer, NotMarker)
                 = extract_text_from_runs(para.runs) \o <<"\n\n">>
           /\ Count("**", writer.buffer)
                 = Changes([i \in 1..Len(para.runs) |->
                               unwrap_or_false(para.runs[i].bold)], FALSE)
           /\ Count("*", writer.buffer)
                 = Changes([i \in 1..Len(para.runs) |->
                               unwrap_or_false(para.runs[i].italic)], FALSE)
           /\ Count("~~", writer.buffer)
                 = Changes([i \in 1..Len(para.runs) |->
                               unwrap_or_false(para.runs[i].strikethrough)], FALSE)
           /\ para.runs = <<HelloRun, WorldRun, BangRun>>
                 => Bytes(writer.buffer)
                      = <<"H", "e", "l", "l", "o", " ", "*", "*", "w", "o", "r", "l",
                          "d", "*", "*", "!", "\n", "\n">>

\* C16 witness: the three runs of the scenario have been written
C16_Witness ==
    /\ pc = "done"
    /\ options.include_styles
    /\ para.runs = <<HelloRun, WorldRun, BangRun>>
    /\ para.display_formulas = <<>>
    /\ Len(writer.buffer) = 15

\* the substitution of one character in markdown mode, as bytes
MarkdownSubstitute(c) ==
    IF c = "|" THEN <<"\\", "|">> ELSE IF c = "\n" THEN <<" ">> ELSE <<c>>

\* C20: markdown-mode escaping substitutes character by character, in order:
\* every | becomes a backslash and |, every newline one space, every other
\* character is copied; a text with neither comes out unchanged and the
\* text a|b, newline, c comes out as a, backslash, |, b, space, c.
C20_MarkdownEscape ==
    pc = "done"
        => /\ Bytes(writer.buffer)
                 = Concat([i \in 1..Len(para.text) |-> MarkdownSubstitute(para.text[i])])
           /\ (~Contains(para.text, "|") /\ ~Contains(para.text, "\n"))
                 => Bytes(writer.buffer) = para.text
           /\ para.text = <<"a", "|", "b", "\n", "c">>
                 => Bytes(writer.buffer) = <<"a", "\\", "|", "b", " ", "c">>

\* C20 witness: the scenario text has been escaped
C20_Witness ==
    /\ pc = "done"
    /\ para.text = <<"a", "|", "b", "\n", "c">>
    /\ writer.buffer = <<"a", "\\|", "b", " ", "c">>

\* a table none of whose cells carries a merge attribute
MergeFree(t) ==
    \A r \in 1..Len(t.rows) : \A c \in 1..Len(t.rows[r].cells) :
        t.rows[r].cells[c].grid_span = 1 /\ t.rows[r].cells[c].v_merge = "none"

\* the table of the merge scenario: one cell of width 2 over two ordinary cells
MergeScenario(t) ==
    /\ Len(t.rows) = 2
    /\ Len(t.rows[1].cells) = 1 /\ Len(t.rows[2].cells) = 2
    /\ t.rows[1].cells[1].grid_span = 2 /\ t.rows[1].cells[1].v_merge = "none"
    /\ \A c \in 1..2 : t.rows[2].cells[c].grid_span = 1
                          /\ t.rows[2].cells[c].v_merge = "none"

\* the pieces pat occur in buf, in a row
ContainsPieces(buf, pat) ==
    \E i \in 0..(Len(buf) - Len(pat)) : SubSeq(buf, i + 1, i + Len(pat)) = pat

\* C17: a cell of horizontal-merge width w placed at grid column c gets
\* colspan w and the w-1 following grid columns of its row are marked skip;
\* the table with one cell of width 2 over two ordinary cells has the grid
\* [[colspan 2, skip], [colspan 1, colspan 1]] and its HTML rendering
\* carries th with colspan 2 on the first row.
C17_ColspanMarks ==
    (pc = "done" /\ cur_spans # <<>>)
        => /\ \A r \in 1..Len(cur_spans) : \A g \in 1..Len(cur_spans[r]) :
                 ~cur_spans[r][g].skip
                     => \A h \in (g + 1)..(g + cur_spans[r][g].colspan - 1) :
                            h <= Len(cur_spans[r]) => cur_spans[r][h].skip
           /\ (\A r \in 1..Len(cur_table.rows) :
                   \A c \in 1..Len(cur_table.rows[r].cells) :
                       cur_table.rows[r].cells[c].v_merge = "none")
                 => \A r \in 1..Len(cur_table.rows) :
                        \A c \in 1..Len(cur_table.rows[r].cells) :
                            LET cells == cur_table.rows[r].cells
                                g == GridStart(cells, c)
                            IN  /\ ~cur_spans[r][g].skip
                                /\ cur_spans[r][g].colspan = cells[c].grid_span
                                /\ cur_spans[r][g].rowspan = 1
                                /\ \A h \in (g + 1)..(g + cells[c].grid_span - 1) :
                                       cur_spans[r][h] = CellSpan_skipped
           /\ MergeScenario(cur_table)
                 => /\ cur_spans
                         = <<<<[colspan |-> 2, rowspan |-> 1, skip |-> FALSE],
                               [colspan |-> 1, rowspan |-> 1, skip |-> TRUE]>>,
                             <<[colspan |-> 1, rowspan |-> 1, skip |-> FALSE],
                               [colspan |-> 1, rowspan |-> 1, skip |-> FALSE]>>>>
                    /\ ContainsPieces(writer.buffer,
                           <<"<tr>", "<", "th", " colspan=\"", "2", "\"", ">">>
                               \o cur_table.rows[1].cells[1].text \o <<"</", "th", ">">>)
                       \/ ContainsPieces(writer.buffer,
                              <<"<tr>\n">>
                                  \o Repeat(" ", 2 * options.html_table_indent)
                                  \o <<"<", "th", " colspan=\"", "2", "\"", ">">>
                                  \o cur_table.rows[1].cells[1].text
                                  \o <<"</", "th", ">">>)

\* C17 witness: the merge scenario has been rendered as HTML
C17_Witness ==
    /\ pc = "done"
    /\ MergeScenario(cur_table)
    /\ Len(cur_spans) = 2
    /\ ContainsPieces(writer.buffer, <<" colspan=\"", "2", "\"">>)

\* one line of a pipe table, as bytes
PipeLine(cells) ==
    <<"|">> \o Concat([c \in 1..Len(cells) |->
                <<" ">> \o Concat([i \in 1..Len(cells[c].text) |->
                                      MarkdownSubstitute(cells[c].text[i])])
                        \o <<" ", "|">>])
          \o <<"\n">>

\* C19: a merge-free table rendered with style markdown is a header line
\* built from the first row, one separator line with one ----------|
\* segment per header cell, then one line per remaining row in row order,
\* each cell written as space, escaped text, space, |; the 2x2 table
\* A,B / C,D gives | A | B |, the separator with two segments, | C | D |.
C19_PipeTable ==
    (/\ pc = "done" /\ options.table_style = "markdown"
     /\ cur_table.rows # <<>> /\ MergeFree(cur_table))
        => LET rows == cur_table.rows
               dashes == [i \in 1..10 |-> "-"] \o <<"|">>
               separator == <<"|">> \o Concat([c \in 1..Len(rows[1].cells) |-> dashes])
                                \o <<"\n">>
           IN  /\ Bytes(writer.buffer)
                     = PipeLine(rows[1].cells) \o separator
                         \o Concat([r \in 1..(Len(rows) - 1) |->
                                     PipeLine(rows[r + 1].cells)])
                         \o <<"\n", "\n">>
               /\ (/\ Len(rows) = 2
                    /\ \A r \in 1..2 : Len(rows[r].cells) = 2
                    /\ MaxCols = 2)
                     => Bytes(writer.buffer)
                          = <<"|", " ", "A", " ", "|", " ", "B", " ", "|", "\n",
                              "|", "-", "-", "-", "-", "-", "-", "-", "-", "-", "-", "|",
                                   "-", "-", "-", "-", "-", "-", "-", "-", "-", "-", "|",
                              "\n",
                              "|", " ", "C", " ", "|", " ", "D", " ", "|", "\n",
                              "\n", "\n">>

\* C19 witness: the 2x2 merge-free table has been rendered as a pipe table
C19_Witness ==
    /\ pc = "done" /\ options.table_style = "markdown"
    /\ Len(cur_table.rows) = 2 /\ MergeFree(cur_table)
    /\ \A r \in 1..2 : Len(cur_table.rows[r].cells) = 2
    /\ Count("----------|", writer.buffer) = 2

\* the first line of a text, as a reader sees it: the text itself when it
\* has no line feed, else what stands before the first line break, LF or
\* CRLF
SlideTitle(text) ==
    CHOOSE t \in {SubSeq(text, 1, k) : k \in 0..Len(text)} :
        /\ ~Contains(t, "\n")
        /\ \/ t = text
           \/ /\ StartsWith(SubSeq(text, Len(t) + 1, Len(text)), <<"\n">>)
              /\ ~EndsWith(t, <<"\r">>)
           \/ StartsWith(SubSeq(text, Len(t) + 1, Len(text)), <<"\r", "\n">>)

\* what one slide contributes: header line, blank line, text and blank line
SlideBytes(slide) ==
    <<"#", " ", "S", "l", "i", "d", "e", " ", ToString(slide.slide_num)>>
        \o (IF SlideTitle(slide.text) = <<>> THEN <<>>
            ELSE <<" ">> \o SlideTitle(slide.text))
        \o <<"\n", "\n">>
        \o (IF slide.text = <<>> THEN <<>> ELSE slide.text \o <<"\n", "\n">>)

\* the slides' contributions with one separator between consecutive slides
SlidesBytes(slides) ==
    Concat([i \in 1..Len(slides) |->
               (IF i > 1 THEN <<"\n", "\n", "-", "-", "-", "\n", "\n">> ELSE <<>>)
                   \o SlideBytes(slides[i])])

\* the metadata block in front of the content: the front matter when
\* metadata is enabled and present
FrontBytes ==
    IF options.include_metadata /\ metadata.some THEN metadata.yaml.value ELSE <<>>

\* metadata is enabled and reading it or making its front matter fails
MetadataFails ==
    /\ options.include_metadata
    /\ metadata.err # "none" \/ (metadata.some /\ ~metadata.yaml.ok)

\* C13: Presentation::to_markdown_with_options gives the same bytes on the
\* sequential and the parallel path, whether use_parallel is on or off and
\* whatever the slide count and the slide texts (line breaks LF or CRLF):
\* after the metadata block each slide contributes its header line, a blank
\* line and its text, and exactly one separator stands between consecutive
\* slides, none before the first and none after the last; when reading the
\* metadata fails, both paths return the error.
C13_SlidesAgree ==
    pc = "pres_done"
        => IF MetadataFails THEN ~result.ok
           ELSE /\ result.ok
                /\ Bytes(result.value) = FrontBytes \o SlidesBytes(elements)
                /\ Count("\n\n---\n\n", result.value)
                      = IF elements = <<>> THEN 0 ELSE Len(elements) - 1

\* C13 witness: ten slides, the first with a CRLF line break, have been
\* rendered by the tasks of the parallel map and joined behind front matter
C13_Witness ==
    /\ pc = "pres_done"
    /\ Len(element_strings) = SLIDE_PARALLEL_THRESHOLD
    /\ elements[1].text = <<"a", "\r", "\n", "b">>
    /\ options.include_metadata /\ metadata.some /\ metadata.yaml.value = FrontMatter
    /\ result.ok
    /\ Count("\n\n---\n\n", result.value) = SLIDE_PARALLEL_THRESHOLD - 1

\* C12: for every table and style, write_table gives the same bytes on the
\* sequential path and on the parallel path (rows above the threshold with
\* use_parallel), for pipe, minimal HTML and styled HTML tables; a table
\* that fails on one path fails on the other.
C12_RowPathsAgree ==
    /\ pc = "table_done"
          => \A up \in BOOLEAN :
                \E r \in {write_table(new, [options EXCEPT !.use_parallel = up],
                                       cur_table)} :
                    r.ok /\ Bytes(r.w.buffer) = Bytes(writer.buffer)
    /\ pc = "table_err"
          => \A up \in BOOLEAN :
                ~write_table(new, [options EXCEPT !.use_parallel = up], cur_table).ok

\* C12 witness: a table above the threshold whose first row is a merged
\* header has been rendered by the tasks of the parallel map and joined
C12_Witness ==
    /\ pc = "table_done"
    /\ options.table_style = "styled_html"
    /\ Len(element_strings) = TABLE_PARALLEL_THRESHOLD + 1
    /\ Len(cur_table.rows[1].cells) = 1
    /\ Len(cur_spans) = TABLE_PARALLEL_THRESHOLD + 1

\* the substitution of one character in HTML mode, as bytes
HtmlSubstitute(c) ==
    CASE c = "&" -> <<"&", "a", "m", "p", ";">>
      [] c = "<" -> <<"&", "l", "t", ";">>
      [] c = ">" -> <<"&", "g", "t", ";">>
      [] c = "\n" -> <<"<", "b", "r", ">">>
      [] OTHER -> <<c>>

\* the bytes of the elements a document of UnitsInit is made of
ElementBytes(element) ==
    CASE element = BoldParagraph -> <<"*", "*", "a", "*", "*", "\n", "\n">>
      [] element = PlainParagraph -> <<"a", "\n", "\n">>
      [] element = PlainTable ->
             <<"|", " ", "A", " ", "|", "\n",
               "|", "-", "-", "-", "-", "-", "-", "-", "-", "-", "-", "|", "\n",
               "\n", "\n">>

\* the number of consecutive rows from row r down whose first cell is in
\* state continue
RECURSIVE ContinuedBelow(_, _)
ContinuedBelow(rows, r) ==
    IF r > Len(rows) \/ rows[r].cells = <<>> \/ rows[r].cells[1].v_merge # "continue"
    THEN 0
    ELSE 1 + ContinuedBelow(rows, r + 1)

\* the bytes of row r of an HTML table whose vertical merges start in the
\* first cell of a row: one element per cell, the row's first cell spanning
\* the rows that continue it
HtmlRowBytes(table, r, styled, indent) ==
    LET tag == IF r = 1 THEN <<"t", "h">> ELSE <<"t", "d">>
        cells == table.rows[r].cells
        rowspan(c) == IF c = 1 /\ cells[c].v_merge = "restart"
                      THEN 1 + ContinuedBelow(table.rows, r + 1) ELSE 1
        attr(name, n) == IF n > 1 THEN <<" ">> \o name \o <<"=", "\"", ToString(n), "\"">>
                         ELSE <<>>
        cell(c) == (IF styled THEN indent \o indent ELSE <<>>)
                       \o <<"<">> \o tag
                       \o attr(<<"c", "o", "l", "s", "p", "a", "n">>, cells[c].grid_span)
                       \o attr(<<"r", "o", "w", "s", "p", "a", "n">>, rowspan(c))
                       \o <<">">>
                       \o Concat([k \in 1..Len(cells[c].text) |->
                                     HtmlSubstitute(cells[c].text[k])])
                       \o <<"<", "/">> \o tag \o <<">">>
                       \o (IF styled THEN <<"\n">> ELSE <<>>)
    IN  (IF styled THEN indent \o <<"<", "t", "r", ">", "\n">> ELSE <<"<", "t", "r", ">">>)
            \o Concat([c \in 1..Len(cells) |-> cell(c)])
            \o (IF styled THEN indent \o <<"<", "/", "t", "r", ">", "\n">>
                ELSE <<"<", "/", "t", "r", ">">>)

\* the bytes of row r of a pipe table
PipeRowBytes(table, r) ==
    LET cells == table.rows[r].cells
    IN  <<"|">>
            \o Concat([c \in 1..Len(cells) |->
                          <<" ">>
                              \o Concat([k \in 1..Len(cells[c].text) |->
                                            MarkdownSubstitute(cells[c].text[k])])
                              \o <<" ", "|">>])
            \o <<"\n">>

\* the bytes unit i of the parallel map under way is rendered to: element i
\* of a document, slide i of a presentation, the i-th row of a table's row
\* loop
UnitBytes(i) ==
    CASE pc = "par" -> ElementBytes(elements[i])
      [] pc = "slides_par" -> SlideBytes(elements[i])
      [] pc = "rows_par" ->
             IF row_renderer(options, cur_table) = "markdown"
             THEN PipeRowBytes(cur_table, i + 1)
             ELSE HtmlRowBytes(cur_table, i, options.table_style = "styled_html",
                               [k \in 1..options.html_table_indent |-> " "])

\* the bytes of all units in index order, a horizontal rule between slides
UnitsBytes ==
    IF pc = "slides_par" THEN SlidesBytes(elements)
    ELSE Concat([i \in 1..Len(element_strings) |-> UnitBytes(i)])

\* a step of a parallel path: a buffer that changes was still pending and
\* becomes the rendering of the unit of its own index; the step that ends
\* the parallel map finds no buffer pending and yields the renderings of the
\* units in index order
C11_Step ==
    /\ (pc \in {"par", "slides_par", "rows_par"} /\ element_strings' # element_strings)
          => /\ Len(element_strings') = Len(element_strings)
             /\ \A i \in 1..Len(element_strings) :
                   element_strings'[i] # element_strings[i]
                       => /\ element_strings[i] = <<"pending">>
                          /\ Bytes(element_strings'[i]) = UnitBytes(i)
    /\ (pc \in {"par", "slides_par", "rows_par"} /\ pc' # pc /\ pc' # "panic")
          => /\ element_strings' = element_strings
             /\ \A i \in 1..Len(element_strings) : element_strings[i] # <<"pending">>
             /\ pc \in {"par", "slides_par"}
                   => result'.ok /\ Bytes(result'.value) = FrontBytes \o UnitsBytes
             /\ pc = "rows_par"
                   => Bytes(writer'.buffer)
                        = Bytes(writer.buffer) \o UnitsBytes
                            \o (IF row_renderer(options, cur_table) = "markdown" THEN <<>>
                                ELSE <<"<", "/", "t", "a", "b", "l", "e", ">">>)
                            \o <<"\n", "\n">>

\* C11: in every parallel path (document elements, table rows, presentation
\* slides) the output is the renderings of the units in unit index order
\* whatever the order in which the shards complete: the i-th piece is the
\* rendering of the i-th unit, and no shard writes into the buffer of
\* another unit or into a buffer already written.
C11_IndexOrder == [][C11_Step]_vars

\* C11 witness: in a document on the parallel path the last range of
\* elements and the second element have been rendered while the first
\* element is still pending
C11_Witness ==
    /\ pc = "par"
    /\ elements[1] = BoldParagraph
    /\ elements[2] = PlainTable
    /\ element_strings[1] = <<"pending">>
    /\ element_strings[2] # <<"pending">>
    /\ element_strings[3] = <<"pending">>
    /\ element_strings[Len(elements)] # <<"pending">>

\* C18 as stated: the parallel path is taken only when use_parallel is on and
\* the count exceeds the threshold; a document of exactly 50 elements or a
\* presentation of exactly 10 slides is rendered sequentially.
C18_AboveThreshold ==
    /\ pc = "par" => options.use_parallel /\ Len(elements) > PARALLEL_THRESHOLD
    /\ pc = "slides_par"
          => options.use_parallel /\ Len(elements) > SLIDE_PARALLEL_THRESHOLD

\* C18: the parallel path of document (presentation) rendering is taken
\* exactly when use_parallel is on and the element (slide) count is at
\* least the threshold 50 (10); with use_parallel a document of exactly 50
\* elements or a presentation of exactly 10 slides is rendered by the
\* parallel path, one of 49 elements or 9 slides by the sequential path.
C18_AtLeastThreshold ==
    /\ pc = "par" => options.use_parallel /\ Len(elements) >= PARALLEL_THRESHOLD
    /\ pc = "seq" => ~(options.use_parallel /\ Len(elements) >= PARALLEL_THRESHOLD)
    /\ pc = "slides_par"
          => options.use_parallel /\ Len(elements) >= SLIDE_PARALLEL_THRESHOLD
    /\ pc = "slides_seq"
          => ~(options.use_parallel /\ Len(elements) >= SLIDE_PARALLEL_THRESHOLD)

\* C18 witness: a document of exactly 50 elements is on the parallel path
C18_Witness ==
    /\ pc = "par"
    /\ options.use_parallel
    /\ Len(elements) = PARALLEL_THRESHOLD

\* C21: HTML-mode escaping substitutes character by character, in order:
\* & becomes &amp;, < becomes &lt;, > becomes &gt;, newline becomes <br>,
\* every other character is copied; a text with none of the four comes out
\* unchanged and a&b<c>d, newline comes out as a&amp;b&lt;c&gt;d<br>.
C21_HtmlEscape ==
    pc = "html_done"
        => /\ Bytes(writer.buffer)
                 = Concat([i \in 1..Len(para.text) |-> HtmlSubstitute(para.text[i])])
           /\ (\A i \in 1..Len(para.text) : para.text[i] \notin {"&", "<", ">", "\n"})
                 => Bytes(writer.buffer) = para.text
           /\ para.text = HtmlScenarioText
                 => Bytes(writer.buffer)
                      = <<"a", "&", "a", "m", "p", ";", "b", "&", "l", "t", ";", "c",
                          "&", "g", "t", ";", "d", "<", "b", "r", ">">>

\* C21 witness: the scenario text has been escaped
C21_Witness ==
    /\ pc = "html_done"
    /\ para.text = HtmlScenarioText
    /\ writer.buffer = <<"a", "&amp;", "b", "&lt;", "c", "&gt;", "d", "<br>">>

\* the markers one formatting transition writes: closes for the flags
\* turning off in the order strikethrough, italic, bold, then opens for the
\* flags turning on in the order bold, italic, strikethrough
TransitionMarkers(w, bold, italic, strikethrough) ==
    (IF w.current_strikethrough /\ ~strikethrough THEN <<"~~">> ELSE <<>>)
        \o (IF w.current_italic /\ ~italic THEN <<"*">> ELSE <<>>)
        \o (IF w.current_bold /\ ~bold THEN <<"**">> ELSE <<>>)
        \o (IF ~w.current_bold /\ bold THEN <<"**">> ELSE <<>>)
        \o (IF ~w.current_italic /\ italic THEN <<"*">> ELSE <<>>)
        \o (IF ~w.current_strikethrough /\ strikethrough THEN <<"~~">> ELSE <<>>)

C22_Step ==
    (pc = "open" /\ nruns' = nruns + 1)
        => LET run == para'.runs[Len(para'.runs)]
               bold == unwrap_or_false(run.bold)
               italic == unwrap_or_false(run.italic)
               strikethrough == unwrap_or_false(run.strikethrough)
               added == SubSeq(writer'.buffer, Len(writer.buffer) + 1,
                               Len(writer'.buffer))
           IN  ~(options.strikethrough_style = "html" /\ strikethrough)
                  => /\ added = TransitionMarkers(writer, bold, italic, strikethrough)
                                   \o run.text
                     /\ writer'.current_bold = bold
                     /\ writer'.current_italic = italic
                     /\ writer'.current_strikethrough = strikethrough

\* C22: within one formatting transition the close markers of the flags
\* turning off are written in the order strikethrough, italic, bold, all of
\* them before the open markers of the flags turning on, which are written
\* in the order bold, italic, strikethrough; after the transition the three
\* current flags equal the desired triple.
C22_TransitionOrder == [][C22_Step]_vars

\* C22 witness: after an italic struck run, a bold run has closed ~~ and *
\* and then opened **
C22_Witness ==
    /\ pc = "open"
    /\ para.runs = <<MkRun(<<"a">>, "none", "true", "true"), BoldOnlyRun>>
    /\ writer.buffer = <<"*", "~~", "a", "~~", "*", "**", "a">>
    /\ writer.current_bold
    /\ ~writer.current_italic
    /\ ~writer.current_strikethrough

\* C23: on the parallel document path an element whose rendering fails
\* does not abort the conversion: the conversion is never left without a
\* result, the failure is discarded, the element contributes what its
\* private buffer held when it failed (nothing for a table whose row fails,
\* the open marker and the text written so far, with no closing marker and
\* no paragraph break, for a paragraph whose second run fails), and the
\* conversion returns Ok.
C23_ShardErrorsDropped ==
    /\ pc = "panic" => ~use_parallel_path(options, elements)
    /\ (pc = "done" /\ use_parallel_path(options, elements))
          => /\ result.ok
             /\ result.value = Concat(element_strings)
             /\ \A i \in 1..Len(elements) :
                   /\ element_fails(options, elements[i])
                         => element_strings[i]
                               = write_element(new, options, elements[i]).w.buffer
                   /\ elements[i] = FailingParagraph
                         => element_strings[i] = <<"**", "a">>
                   /\ elements[i] = FailingTable => element_strings[i] = <<>>
                   /\ elements[i] = PlainParagraph
                         => element_strings[i] = <<"a", "\n\n">>

\* a cell in state continue with no restart cell above it at its grid column
OrphanContinue(t, r, c) ==
    /\ t.rows[r].cells[c].v_merge = "continue"
    /\ \A q \in 1..(r - 1) :
          LET d == CellAt(t.rows[q].cells, GridStart(t.rows[r].cells, c))
          IN  d = 0 \/ t.rows[q].cells[d].v_merge # "restart"

\* the table with the merge attribute of one cell removed
WithoutMerge(t, r, c) == [t EXCEPT !.rows[r].cells[c].v_merge = "none"]

\* C24: a cell in state continue with no restart cell above it in its grid
\* column is inert in span analysis: its own span entry keeps rowspan 1 and
\* skip = false, and every rowspan of the grid is what it is without the
\* cell's continue attribute.
C24_OrphanInert ==
    (pc = "done" /\ cur_spans # <<>>)
        => \A r \in 1..Len(cur_table.rows) : \A c \in 1..Len(cur_table.rows[r].cells) :
              OrphanContinue(cur_table, r, c)
                  => /\ LET g == GridStart(cur_table.rows[r].cells, c)
                        IN  cur_spans[r][g].rowspan = 1 /\ ~cur_spans[r][g].skip
                     /\ \A q \in 1..Len(cur_spans) : \A g \in 1..Len(cur_spans[q]) :
                           cur_spans[q][g].rowspan
                               = span_grid(WithoutMerge(cur_table, r, c).rows)[q][g].rowspan

\* the markers close_formatting writes for the flags that are open
OpenMarkersClosed(w) ==
    (IF w.current_strikethrough THEN <<"~~">> ELSE <<>>)
        \o (IF w.current_italic THEN <<"*">> ELSE <<>>)
        \o (IF w.current_bold THEN <<"**">> ELSE <<>>)

\* the inline markers of a del-wrapped fragment
DelInline(bold, italic) ==
    IF bold /\ italic THEN <<"***">>
    ELSE IF bold THEN <<"**">>
    ELSE IF italic THEN <<"*">>
    ELSE <<>>

C25_Step ==
    (pc = "open" /\ nruns' = nruns + 1)
        => LET run == para'.runs[Len(para'.runs)]
               bold == unwrap_or_false(run.bold)
               italic == unwrap_or_false(run.italic)
               added == SubSeq(writer'.buffer, Len(writer.buffer) + 1,
                               Len(writer'.buffer))
           IN  (options.strikethrough_style = "html" /\ unwrap_or_false(run.strikethrough))
                  => /\ added = OpenMarkersClosed(writer) \o <<"<del>">>
                                   \o DelInline(bold, italic) \o run.text
                                   \o DelInline(bold, italic) \o <<"</del>">>
                     /\ ~writer'.current_bold
                     /\ ~writer'.current_italic
                     /\ ~writer'.current_strikethrough

\* C25: with strikethrough_style html a struck fragment first closes every
\* open markdown marker, is then written as <del>, inline bold/italic
\* markers, text, the matching markers, </del>, and opens no persistent
\* marker: right after it the three current flags are false.
C25_DelSelfContained == [][C25_Step]_vars

\* C25 witness: after a bold run, a struck italic run has been written in
\* HTML strikethrough style
C25_Witness ==
    /\ pc = "open"
    /\ options.strikethrough_style = "html"
    /\ writer.buffer = <<"**", "a", "**", "<del>", "*", "a", "*", "</del>">>
    /\ ~writer.current_bold
    /\ ~writer.current_italic
    /\ ~writer.current_strikethrough

\* what a superscript or subscript fragment writes: the HTML tag pair
\* around the text, or the converted characters in unicode style when every
\* character has an equivalent
ScriptBytes(opts, run) ==
    LET sup == run.vertical_position = "superscript"
    IN  IF opts.script_style = "html" \/ ~AllDigits(run.text)
        THEN <<IF sup THEN "<sup>" ELSE "<sub>">> \o run.text
                 \o <<IF sup THEN "</sup>" ELSE "</sub>">>
        ELSE [i \in 1..Len(run.text) |-> (IF sup THEN "^" ELSE "_") \o run.text[i]]

C26_Step ==
    (pc = "open" /\ nruns' = nruns + 1)
        => LET run == para'.runs[Len(para'.runs)]
               added == SubSeq(writer'.buffer, Len(writer.buffer) + 1,
                               Len(writer'.buffer))
           IN  run.vertical_position \in {"superscript", "subscript"}
                  => /\ added = ScriptBytes(options, run)
                     /\ \A i \in 1..Len(added) : added[i] \notin {"**", "*", "~~", "***"}
                     /\ writer'.current_bold = writer.current_bold
                     /\ writer'.current_italic = writer.current_italic
                     /\ writer'.current_strikethrough = writer.current_strikethrough

\* C26: a fragment with superscript or subscript vertical position bypasses
\* the marker state machine: writing it emits no **, * or ~~ marker,
\* whatever its own bold/italic/strikethrough values, and leaves the three
\* current formatting flags as they were before the fragment.
C26_ScriptBypass == [][C26_Step]_vars

\* C26 witness: a bold, italic and struck superscript has been written
\* while bold was open, and bold is still the only open flag
C26_Witness ==
    /\ pc = "open"
    /\ options.script_style = "html"
    /\ options.strikethrough_style = "markdown"
    /\ writer.buffer = <<"**", "a", "<sup>", "2", "</sup>">>
    /\ writer.current_bold
    /\ ~writer.current_italic
    /\ ~writer.current_strikethrough

\* the text starts with k >= 1 ASCII digits followed by ". " or ") ", or
\* with "(", k >= 1 ASCII digits and ") "
OrderedPattern(t) ==
    \/ \E k \in 1..Len(t) :
          /\ AllDigits(SubSeq(t, 1, k))
          /\ Len(t) >= k + 2
          /\ t[k + 1] \in {".", ")"}
          /\ t[k + 2] = " "
    \/ \E k \in 1..Len(t) :
          /\ Len(t) >= k + 3
          /\ t[1] = "("
          /\ AllDigits(SubSeq(t, 2, k + 1))
          /\ t[k + 2] = ")"
          /\ t[k + 3] = " "

\* C27: a paragraph is classified as an ordered list item only when its
\* trimmed text starts with a non-empty run of ASCII digits followed by
\* ". " or ") ", or with a parenthesized non-empty digit run followed by
\* ") "; a text starting with "() " is not a list item and is written as
\* it is.
C27_OrderedMarker ==
    pc = "done"
        => /\ detect_list_item(options, para.text).list_type = "ordered"
                 => OrderedPattern(TrimStart(para.text))
           /\ StartsWith(TrimStart(para.text), <<"(", ")", " ">>)
                 => /\ detect_list_item(options, para.text).list_type = "none"
                    /\ Bytes(writer.buffer) = para.text \o <<"\n", "\n">>

\* C28: the string Run::to_markdown_with_options returns has balanced
\* inline markers: finish is not reached while bold, italic or
\* strikethrough is open, and every marker the run opened is closed in
\* the returned string.
C28_BalancedAtFinish ==
    (pc = "run_done" /\ result.ok)
        => /\ ~writer.current_bold
           /\ ~writer.current_italic
           /\ ~writer.current_strikethrough
           /\ \A m \in {"**", "*", "~~", "***"} : Count(m, result.value) % 2 = 0


\* C29: for a list-item paragraph whose runs carry no formatting, the
\* styled path (include_styles, write_list_item_from_runs) writes the same
\* bytes as the plain-text path writes for the same paragraph: indent,
\* canonical marker, one space and the content after the marker.
C29_StyledEqualsPlain ==
    (/\ pc = "done"
     /\ options.include_styles
     /\ para.runs # <<>>
     /\ detect_list_item(options, para.text).list_type # "none")
        => Bytes(writer.buffer)
               = Bytes(write_paragraph(new, [options EXCEPT !.include_styles = FALSE],
                                       para).w.buffer)


\* C30: list detection is total for every list_indent value, zero
\* included: rendering a paragraph whose text matches a list pattern
\* returns normally and never panics in the level computation.
C30_ListDetectionTotal ==
    (/\ pc # "start"
     /\ \/ extract_ordered_list_marker(TrimStart(para.text)).some
        \/ extract_unordered_list_marker(TrimStart(para.text)).some)
        => pc = "done"

====
